---------------------------- MODULE Spec2Model ----------------------------
(***************************************************************************)
(* A model of kv-stash: the sharded in-memory store (internal/store), the  *)
(* RESP command handlers (internal/server/handler.go) and the connection   *)
(* loop (internal/server/server.go).                                       *)
(*                                                                         *)
(* Byte strings are sequences of byte values (0..255).  A Go int64 is a    *)
(* tuple of four 16-bit limbs, most significant first, in two's            *)
(* complement, so that its arithmetic wraps modulo 2^64 as Go's does.      *)
(* Time is counted in milliseconds.                                        *)
(***************************************************************************)
EXTENDS Integers, Sequences, FiniteSets, TLC

(***************************************************************************)
(* Bounds of the model.                                                    *)
(***************************************************************************)
\* number of shards of the store (Config.Shards)
Shards == 2
\* the clock takes the values 0, TickStep, ..., MaxTicks * TickStep
MaxTicks == 2
\* lazy expirations counted before the model stops
MaxExpired == 1
\* the counters stay within this distance of 0 and of the ends of int64
NumWindow == 2

(***************************************************************************)
(* Byte strings.                                                           *)
(***************************************************************************)
Byte == 0..255

\* '0' + d
Digit(d) == 48 + d

IsDigit(b) == b >= 48 /\ b <= 57

\* strings.ToUpper on ASCII bytes
ToUpper(s) == [i \in 1..Len(s) |-> IF s[i] >= 97 /\ s[i] <= 122 THEN s[i] - 32 ELSE s[i]]

(***************************************************************************)
(* int64 and uint64 as four 16-bit limbs.                                  *)
(***************************************************************************)
Limb == 2^16

I64Zero == <<0, 0, 0, 0>>

MaxInt64 == <<Limb \div 2 - 1, Limb - 1, Limb - 1, Limb - 1>>

MinInt64 == <<Limb \div 2, 0, 0, 0>>

\* x + y modulo 2^64
I64Add(x, y) ==
  LET s0 == x[4] + y[4]
      s1 == x[3] + y[3] + s0 \div Limb
      s2 == x[2] + y[2] + s1 \div Limb
      s3 == x[1] + y[1] + s2 \div Limb
  IN  <<s3 % Limb, s2 % Limb, s1 % Limb, s0 % Limb>>

\* -x modulo 2^64 (the negation of MinInt64 is MinInt64)
I64Neg(x) ==
  I64Add(<<Limb - 1 - x[1], Limb - 1 - x[2], Limb - 1 - x[3], Limb - 1 - x[4]>>,
         <<0, 0, 0, 1>>)

I64IsNeg(x) == x[1] >= Limb \div 2

\* the int64 of a small integer of the model (|n| < 2^31)
I64(n) ==
  IF n >= 0 THEN <<0, 0, n \div Limb, n % Limb>>
            ELSE I64Neg(<<0, 0, (-n) \div Limb, (-n) % Limb>>)

\* the model integer of an int64 that is small (|x| < 2^31)
I64ToInt(x) ==
  IF I64IsNeg(x) THEN -(I64Neg(x)[3] * Limb + I64Neg(x)[4])
                 ELSE x[3] * Limb + x[4]

\* whether an int64 fits the model's integers
I64IsSmall(x) ==
  LET m == IF I64IsNeg(x) THEN I64Neg(x) ELSE x
  IN  m[1] = 0 /\ m[2] = 0 /\ m[3] < Limb \div 2

\* x < y as signed 64-bit integers
I64Less(x, y) ==
  LET bx == <<(x[1] + Limb \div 2) % Limb, x[2], x[3], x[4]>>
      by == <<(y[1] + Limb \div 2) % Limb, y[2], y[3], y[4]>>
  IN  \E i \in 1..4 : bx[i] < by[i] /\ \A j \in 1..(i - 1) : bx[j] = by[j]

\* u * 10 + d on uint64, with the overflow out of 64 bits reported
U64MulAdd10(u, d) ==
  LET t0 == u[4] * 10 + d
      t1 == u[3] * 10 + t0 \div Limb
      t2 == u[2] * 10 + t1 \div Limb
      t3 == u[1] * 10 + t2 \div Limb
  IN  [ovf |-> t3 \div Limb > 0,
       val |-> <<t3 % Limb, t2 % Limb, t1 % Limb, t0 % Limb>>]

\* u divided by 10 on uint64: quotient and remainder
U64DivMod10(u) ==
  LET t3 == u[1]
      t2 == (t3 % 10) * Limb + u[2]
      t1 == (t2 % 10) * Limb + u[3]
      t0 == (t1 % 10) * Limb + u[4]
  IN  [q |-> <<t3 \div 10, t2 \div 10, t1 \div 10, t0 \div 10>>, r |-> t0 % 10]

\* strconv.ParseUint(s, 10, 64) from position i with accumulator acc
RECURSIVE ParseUintFrom(_, _, _)
ParseUintFrom(s, i, acc) ==
  IF i > Len(s) THEN [ok |-> TRUE, val |-> acc]
  ELSE IF ~IsDigit(s[i]) THEN [ok |-> FALSE, val |-> I64Zero]
  ELSE LET n == U64MulAdd10(acc, s[i] - 48)
       IN  IF n.ovf THEN [ok |-> FALSE, val |-> I64Zero]
           ELSE ParseUintFrom(s, i + 1, n.val)

\* strconv.ParseInt(s, 10, 64): an optional sign, then decimal digits; the
\* magnitude must be < 2^63, or = 2^63 with a minus sign.
ParseInt(s) ==
  LET neg  == Len(s) > 0 /\ s[1] = 45
      sign == Len(s) > 0 /\ (s[1] = 45 \/ s[1] = 43)
      rest == IF sign THEN SubSeq(s, 2, Len(s)) ELSE s
      un   == ParseUintFrom(rest, 1, I64Zero)
  IN  IF Len(rest) = 0 \/ ~un.ok THEN [ok |-> FALSE, val |-> I64Zero]
      ELSE IF ~neg /\ I64IsNeg(un.val) THEN [ok |-> FALSE, val |-> I64Zero]
      ELSE IF neg /\ I64IsNeg(un.val) /\ un.val # MinInt64 THEN [ok |-> FALSE, val |-> I64Zero]
      ELSE [ok |-> TRUE, val |-> IF neg THEN I64Neg(un.val) ELSE un.val]

\* strconv.Atoi: ParseInt at the width of int, which is 64 bits
Atoi(s) == ParseInt(s)

\* the decimal digits of a uint64, most significant first ("" for 0)
RECURSIVE FormatUintDigits(_)
FormatUintDigits(u) ==
  IF u = I64Zero THEN <<>>
  ELSE LET d == U64DivMod10(u) IN Append(FormatUintDigits(d.q), Digit(d.r))

\* strconv.FormatInt(x, 10)
FormatInt(x) ==
  IF x = I64Zero THEN <<48>>
  ELSE IF I64IsNeg(x) THEN <<45>> \o FormatUintDigits(I64Neg(x))
  ELSE FormatUintDigits(x)

(***************************************************************************)
(* FNV-1a, 32 bits, as two 16-bit limbs <<high, low>>.                     *)
(***************************************************************************)
\* a XOR b on k-bit values
RECURSIVE XorBits(_, _, _)
XorBits(a, b, k) ==
  IF k = 0 THEN 0
  ELSE 2 * XorBits(a \div 2, b \div 2, k - 1) + (IF a % 2 = b % 2 THEN 0 ELSE 1)

\* hash * 16777619 modulo 2^32, where 16777619 = 2^24 + 403
FnvMul(h) ==
  LET lo == h[2] * 403
      hi == h[1] * 403 + lo \div Limb + (h[2] % 256) * 256
  IN  <<hi % Limb, lo % Limb>>

RECURSIVE FnvFrom(_, _, _)
FnvFrom(key, i, h) ==
  IF i > Len(key) THEN h
  ELSE FnvFrom(key, i + 1,
               FnvMul(<<h[1], (h[2] \div 256) * 256 + XorBits(h[2] % 256, key[i], 8)>>))

\* fnv1aHash(key), from the basis 2166136261 = 0x811C9DC5
fnv1aHash(key) == FnvFrom(key, 1, <<33052, 40389>>)

\* hash % len(shards)
HashMod(h) == ((h[1] % Shards) * (Limb % Shards) + h[2]) % Shards

(***************************************************************************)
(* Byte-string literals used by the handlers and as inputs.                *)
(***************************************************************************)
\* "PING"
S_PING == <<80, 73, 78, 71>>
\* "ECHO"
S_ECHO == <<69, 67, 72, 79>>
\* "INFO"
S_INFO == <<73, 78, 70, 79>>
\* "GET"
S_GET == <<71, 69, 84>>
\* "SET"
S_SET == <<83, 69, 84>>
\* "DEL"
S_DEL == <<68, 69, 76>>
\* "EXISTS"
S_EXISTS == <<69, 88, 73, 83, 84, 83>>
\* "EXPIRE"
S_EXPIRE == <<69, 88, 80, 73, 82, 69>>
\* "TTL"
S_TTL == <<84, 84, 76>>
\* "DBSIZE"
S_DBSIZE == <<68, 66, 83, 73, 90, 69>>
\* "MGET"
S_MGET == <<77, 71, 69, 84>>
\* "MSET"
S_MSET == <<77, 83, 69, 84>>
\* "INCR"
S_INCR == <<73, 78, 67, 82>>
\* "DECR"
S_DECR == <<68, 69, 67, 82>>
\* "INCRBY"
S_INCRBY == <<73, 78, 67, 82, 66, 89>>
\* "DECRBY"
S_DECRBY == <<68, 69, 67, 82, 66, 89>>
\* "QUIT"
S_QUIT == <<81, 85, 73, 84>>
\* "EX"
S_EX == <<69, 88>>
\* "PX"
S_PX == <<80, 88>>
\* "NX"
S_NX == <<78, 88>>
\* "XX"
S_XX == <<88, 88>>
\* "ex"
S_ex == <<101, 120>>
\* "FOO"
S_FOO == <<70, 79, 79>>
\* "a"
S_a == <<97>>
\* "b"
S_b == <<98>>
\* "c"
S_c == <<99>>
\* "v1"
S_v1 == <<118, 49>>
\* "v2"
S_v2 == <<118, 50>>
\* "1"
S_1 == <<49>>
\* "2"
S_2 == <<50>>
\* "3"
S_3 == <<51>>
\* "-1"
S_m1 == <<45, 49>>
\* "0"
S_0 == <<48>>
\* "500"
S_500 == <<53, 48, 48>>
\* "1500"
S_1500 == <<49, 53, 48, 48>>
\* "invalid"
S_invalid == <<105, 110, 118, 97, 108, 105, 100>>
\* "9223372036854775807"
S_MaxInt64 == <<57, 50, 50, 51, 51, 55, 50, 48, 51, 54, 56, 53, 52, 55, 55, 53, 56, 48, 55>>
\* "-9223372036854775808"
S_MinInt64 == <<45, 57, 50, 50, 51, 51, 55, 50, 48, 51, 54, 56, 53, 52, 55, 55, 53, 56, 48, 56>>

\* "9223372036854775808", one above the largest int64
S_TooBig == <<57, 50, 50, 51, 51, 55, 50, 48, 51, 54, 56, 53, 52, 55, 55, 53, 56, 48, 56>>

\* every key the model's clients use
AllKeys == {S_a, S_b, S_c}

\* the shard index of each of these keys, computed once
ShardIndex == [k \in AllKeys |-> HashMod(fnv1aHash(k))]

\* Store.getShard: the index of the shard of a key
\* getShard with the slip of hashing the length of the key
getShard_ByLength(key) == Len(key) % Shards

getShard(key) == IF key \in AllKeys THEN ShardIndex[key] ELSE HashMod(fnv1aHash(key))

(***************************************************************************)
(* Time: time.Duration and time.Time, in milliseconds.                     *)
(***************************************************************************)
Millisecond == 1

Second == 1000 * Millisecond

\* the step by which the model's clock advances
TickStep == Second \div 2

(***************************************************************************)
(* The store (internal/store/store.go).                                    *)
(*                                                                         *)
(* A store value st is [shards, expiredCount]: shards[i] is the map of     *)
(* shard i, a function from the keys it holds to their Value.  A Go        *)
(* pointer that may be nil (to a time.Time, a time.Duration) is a sequence *)
(* of length 0 or 1.                                                       *)
(***************************************************************************)
\* store.New: every shard with an empty map
New == [shards |-> [i \in 0..(Shards - 1) |-> <<>>], expiredCount |-> 0]

\* &Value{Data, ExpiresAt, Version}
Value(data, expiresAt, version) ==
  [Data |-> data, ExpiresAt |-> expiresAt, Version |-> version]

\* shard.data[key] = val
MapPut(st, key, val) ==
  LET i == getShard(key)
      m == st.shards[i]
  IN  [st EXCEPT !.shards[i] = [k \in DOMAIN m \cup {key} |-> IF k = key THEN val ELSE m[k]]]

\* delete(shard.data, key)
MapDelete(st, key) ==
  LET i == getShard(key)
      m == st.shards[i]
  IN  [st EXCEPT !.shards[i] = [k \in DOMAIN m \ {key} |-> m[k]]]

\* Get's expiry test: time.Now().After(ExpiresAt)
\* GetExpired with the slip of reading a missing deadline as the zero time
GetExpired_NilIsZero(val, t) ==
  t > (IF val.ExpiresAt = <<>> THEN 0 ELSE val.ExpiresAt[1])

GetExpired(val, t) == val.ExpiresAt # <<>> /\ t > val.ExpiresAt[1]

\* Store.Get at clock t: [st, value, exists]
\* Get with the slip of never looking at the deadline
Get_IgnoringDeadline(st, key, t) ==
  LET m == st.shards[getShard(key)]
  IN  IF key \notin DOMAIN m
        THEN [st |-> st, value |-> <<>>, exists |-> FALSE]
      ELSE [st |-> st, value |-> m[key].Data, exists |-> TRUE]

Get(st, key, t) ==
  LET m == st.shards[getShard(key)]
  IN  IF key \notin DOMAIN m
        THEN [st |-> st, value |-> <<>>, exists |-> FALSE]
      ELSE IF GetExpired(m[key], t)
        THEN [st |-> [MapDelete(st, key) EXCEPT !.expiredCount = @ + 1],
              value |-> <<>>, exists |-> FALSE]
      ELSE [st |-> st, value |-> m[key].Data, exists |-> TRUE]

\* Set with the slip of carrying the old record's deadline over when no
\* expiration is given
Set_KeepingDeadline(st, key, value, expiration, t) ==
  LET m == st.shards[getShard(key)]
      old == IF key \in DOMAIN m THEN m[key].ExpiresAt ELSE <<>>
  IN  MapPut(st, key,
             Value(value, IF expiration # <<>> THEN <<t + expiration[1]>> ELSE old, t))

\* Store.Set at clock t; expiration is <<>> (nil) or <<duration>>
Set(st, key, value, expiration, t) ==
  MapPut(st, key,
         Value(value, IF expiration # <<>> THEN <<t + expiration[1]>> ELSE <<>>, t))

\* Store.Delete: [st, ret]
Delete(st, key) ==
  LET exists == key \in DOMAIN st.shards[getShard(key)]
  IN  [st |-> IF exists THEN MapDelete(st, key) ELSE st, ret |-> exists]

\* Store.Exists at clock t
Exists(st, key, t) ==
  LET m == st.shards[getShard(key)]
  IN  IF key \notin DOMAIN m THEN FALSE
      ELSE IF m[key].ExpiresAt # <<>> /\ t > m[key].ExpiresAt[1] THEN FALSE
      ELSE TRUE

\* Store.Expire at clock t: [st, ret]
\* Expire with the slip of storing a fresh record, as Set does, instead of
\* changing the deadline of the stored one
Expire_Rewriting(st, key, duration, t) ==
  LET m == st.shards[getShard(key)]
  IN  IF key \notin DOMAIN m THEN [st |-> st, ret |-> FALSE]
      ELSE [st |-> MapPut(st, key, Value(m[key].Data, <<t + duration>>, t)),
            ret |-> TRUE]

Expire(st, key, duration, t) ==
  LET m == st.shards[getShard(key)]
  IN  IF key \notin DOMAIN m THEN [st |-> st, ret |-> FALSE]
      ELSE [st |-> MapPut(st, key, [m[key] EXCEPT !.ExpiresAt = <<t + duration>>]),
            ret |-> TRUE]

\* TTLSeconds with the slip of not rounding a sub-second remainder up
TTLSeconds_Truncating(ttl) == ttl \div Second

\* the seconds TTL reports for a remaining time ttl > 0
TTLSeconds(ttl) ==
  LET ttlSeconds == ttl \div Second
  IN  IF ttlSeconds = 0 /\ ttl > 0 THEN 1 ELSE ttlSeconds

\* Store.TTL at clock t: [st, ret]
TTL(st, key, t) ==
  LET m == st.shards[getShard(key)]
  IN  IF key \notin DOMAIN m THEN [st |-> st, ret |-> -2]
      ELSE IF m[key].ExpiresAt = <<>> THEN [st |-> st, ret |-> -1]
      ELSE LET ttl == m[key].ExpiresAt[1] - t
           IN  IF ttl <= 0
                 THEN [st |-> [MapDelete(st, key) EXCEPT !.expiredCount = @ + 1],
                       ret |-> -2]
               ELSE [st |-> st, ret |-> TTLSeconds(ttl)]

\* Store.DBSize: the sum of len(shard.data) over the shards
RECURSIVE SumSizes(_, _)
SumSizes(st, i) ==
  IF i >= Shards THEN 0 ELSE Cardinality(DOMAIN st.shards[i]) + SumSizes(st, i + 1)

\* DBSize with the slip of counting the first shard only
DBSize_FirstShard(st) == Cardinality(DOMAIN st.shards[0])

DBSize(st) == SumSizes(st, 0)

\* Store.GetExpiredKeysCount
GetExpiredKeysCount(st) == st.expiredCount


(***************************************************************************)
(* Responses (internal/proto/response.go).  A Response is a record with    *)
(* its Type and one field per kind of payload: Str for a simple string or  *)
(* an error, Int for an integer (int64), Bulk for a bulk string, Arr for   *)
(* an array, whose elements are <<>> (nil) or <<bytes>>.                   *)
(***************************************************************************)
Response(type, str, int, bulk, arr) ==
  [Type |-> type, Str |-> str, Int |-> int, Bulk |-> bulk, Arr |-> arr]

NewSimpleString(s) == Response("SimpleString", s, I64Zero, <<>>, <<>>)

NewError(s) == Response("Error", s, I64Zero, <<>>, <<>>)

NewInteger(i) == Response("Integer", "", i, <<>>, <<>>)

NewBulkString(s) == Response("BulkString", "", I64Zero, s, <<>>)

NewNullBulkString == Response("NullBulkString", "", I64Zero, <<>>, <<>>)

NewArray(arr) == Response("Array", "", I64Zero, <<>>, arr)

ErrSyntax == "ERR syntax error"

ErrNotInteger == "ERR value is not an integer or out of range"

\* "ERR wrong number of arguments for '<name>' command"
ErrArity(name) == "ERR wrong number of arguments for '" \o name \o "' command"

(***************************************************************************)
(* The command handlers (internal/server/handler.go).  A handler maps the  *)
(* store, the clock and the arguments to [st, resp]: the store it leaves   *)
(* and its reply.  Go's args[i] is Args[i + 1] here.                       *)
(***************************************************************************)
Reply(st, resp) == [st |-> st, resp |-> resp]

\* Handler.handlePing
handlePing(st, t, args) ==
  IF Len(args) = 0 THEN Reply(st, NewSimpleString("PONG"))
  ELSE IF Len(args) = 1 THEN Reply(st, NewBulkString(args[1]))
  ELSE Reply(st, NewError(ErrArity("ping")))

\* Handler.handleEcho
handleEcho(st, t, args) ==
  IF Len(args) # 1 THEN Reply(st, NewError(ErrArity("echo")))
  ELSE Reply(st, NewBulkString(args[1]))

\* Handler.handleInfo: of the text only the number after "db0:keys=" varies
handleInfo(st, t, args) ==
  Reply(st, NewBulkString(FormatInt(I64(DBSize(st)))))

\* Handler.handleGet
handleGet(st, t, args) ==
  IF Len(args) # 1 THEN Reply(st, NewError(ErrArity("get")))
  ELSE LET g == Get(st, args[1], t)
       IN  IF ~g.exists THEN Reply(g.st, NewNullBulkString)
           ELSE Reply(g.st, NewBulkString(g.value))

\* the option loop of Handler.handleSet, from argument i with the expiration
\* parsed so far: [err, expiration], err = "" when the options are accepted
RECURSIVE SetOptions(_, _, _)
SetOptions(args, i, expiration) ==
  IF i > Len(args) THEN [err |-> "", expiration |-> expiration]
  ELSE LET option == ToUpper(args[i])
       IN  IF option = S_EX \/ option = S_PX
             THEN IF i + 1 > Len(args) THEN [err |-> ErrSyntax, expiration |-> <<>>]
                  ELSE LET n == Atoi(args[i + 1])
                           unit == IF option = S_EX THEN Second ELSE Millisecond
                       IN  IF ~n.ok THEN [err |-> ErrNotInteger, expiration |-> <<>>]
                           ELSE SetOptions(args, i + 2, <<I64ToInt(n.val) * unit>>)
           ELSE [err |-> ErrSyntax, expiration |-> <<>>]

\* Handler.handleSet
handleSet(st, t, args) ==
  IF Len(args) < 2 THEN Reply(st, NewError(ErrArity("set")))
  ELSE LET o == SetOptions(args, 3, <<>>)
       IN  IF o.err # "" THEN Reply(st, NewError(o.err))
           ELSE Reply(Set(st, args[1], args[2], o.expiration, t), NewSimpleString("OK"))

\* the loop of Handler.handleDel from argument i: [st, n]
RECURSIVE DelLoop(_, _, _, _)
DelLoop(st, args, i, deleted) ==
  IF i > Len(args) THEN [st |-> st, n |-> deleted]
  ELSE LET d == Delete(st, args[i])
       IN  DelLoop(d.st, args, i + 1, IF d.ret THEN deleted + 1 ELSE deleted)

\* Handler.handleDel
handleDel(st, t, args) ==
  IF Len(args) = 0 THEN Reply(st, NewError(ErrArity("del")))
  ELSE LET d == DelLoop(st, args, 1, 0) IN Reply(d.st, NewInteger(I64(d.n)))

\* Handler.handleExists
handleExists(st, t, args) ==
  IF Len(args) = 0 THEN Reply(st, NewError(ErrArity("exists")))
  ELSE Reply(st, NewInteger(I64(Cardinality({i \in 1..Len(args) : Exists(st, args[i], t)}))))

\* Handler.handleExpire
handleExpire(st, t, args) ==
  IF Len(args) # 2 THEN Reply(st, NewError(ErrArity("expire")))
  ELSE LET seconds == Atoi(args[2])
       IN  IF ~seconds.ok THEN Reply(st, NewError(ErrNotInteger))
           ELSE LET e == Expire(st, args[1], I64ToInt(seconds.val) * Second, t)
                IN  Reply(e.st, NewInteger(I64(IF e.ret THEN 1 ELSE 0)))

\* Handler.handleTTL
handleTTL(st, t, args) ==
  IF Len(args) # 1 THEN Reply(st, NewError(ErrArity("ttl")))
  ELSE LET r == TTL(st, args[1], t) IN Reply(r.st, NewInteger(I64(r.ret)))

\* Handler.handleDBSize
handleDBSize(st, t, args) ==
  IF Len(args) # 0 THEN Reply(st, NewError(ErrArity("dbsize")))
  ELSE Reply(st, NewInteger(I64(DBSize(st))))

\* the loop of Handler.handleMGet from argument i: [st, values]
RECURSIVE MGetLoop(_, _, _, _, _)
MGetLoop(st, t, args, i, values) ==
  IF i > Len(args) THEN [st |-> st, values |-> values]
  ELSE LET g == Get(st, args[i], t)
       IN  MGetLoop(g.st, t, args, i + 1,
                    Append(values, IF g.exists THEN <<g.value>> ELSE <<>>))

\* Handler.handleMGet
handleMGet(st, t, args) ==
  IF Len(args) = 0 THEN Reply(st, NewError(ErrArity("mget")))
  ELSE LET m == MGetLoop(st, t, args, 1, <<>>) IN Reply(m.st, NewArray(m.values))

\* the loop of Handler.handleMSet from argument i
RECURSIVE MSetLoop(_, _, _, _)
MSetLoop(st, t, args, i) ==
  IF i > Len(args) THEN st
  ELSE MSetLoop(Set(st, args[i], args[i + 1], <<>>, t), t, args, i + 2)

\* Handler.handleMSet
\* handleMSet with the slip of keeping the deadline of the first key it writes
handleMSet_KeepingDeadline(st, t, args) ==
  IF Len(args) = 0 \/ Len(args) % 2 # 0 THEN Reply(st, NewError(ErrArity("mset")))
  ELSE Reply(MSetLoop(Set_KeepingDeadline(st, args[1], args[2], <<>>, t), t, args, 3),
             NewSimpleString("OK"))

handleMSet(st, t, args) ==
  IF Len(args) = 0 \/ Len(args) % 2 # 0 THEN Reply(st, NewError(ErrArity("mset")))
  ELSE Reply(MSetLoop(st, t, args, 1), NewSimpleString("OK"))

\* IncrSum with the slip of dropping the current value
IncrSum_IgnoringCurrent(current, increment) == increment

\* the sum Handler.incrementBy writes back: current + increment on int64
IncrSum(current, increment) == I64Add(current, increment)

\* incrementBy with the slip of counting from 0 when the value does not parse
incrementBy_GarbageIsZero(st, t, key, increment) ==
  LET g == Get(st, key, t)
      parsed == IF g.exists THEN ParseInt(g.value) ELSE [ok |-> TRUE, val |-> I64Zero]
      newValue == IncrSum(parsed.val, increment)
  IN  Reply(Set(g.st, key, FormatInt(newValue), <<>>, t), NewInteger(newValue))

\* Handler.incrementBy
incrementBy(st, t, key, increment) ==
  LET g == Get(st, key, t)
      parsed == IF g.exists THEN ParseInt(g.value) ELSE [ok |-> TRUE, val |-> I64Zero]
  IN  IF ~parsed.ok THEN Reply(g.st, NewError(ErrNotInteger))
      ELSE LET newValue == IncrSum(parsed.val, increment)
           IN  Reply(Set(g.st, key, FormatInt(newValue), <<>>, t), NewInteger(newValue))

\* Handler.handleIncr
handleIncr(st, t, args) ==
  IF Len(args) # 1 THEN Reply(st, NewError(ErrArity("incr")))
  ELSE incrementBy(st, t, args[1], I64(1))

\* Handler.handleDecr
handleDecr(st, t, args) ==
  IF Len(args) # 1 THEN Reply(st, NewError(ErrArity("decr")))
  ELSE incrementBy(st, t, args[1], I64(-1))

\* Handler.handleIncrBy
handleIncrBy(st, t, args) ==
  IF Len(args) # 2 THEN Reply(st, NewError(ErrArity("incrby")))
  ELSE LET increment == ParseInt(args[2])
       IN  IF ~increment.ok THEN Reply(st, NewError(ErrNotInteger))
           ELSE incrementBy(st, t, args[1], increment.val)

\* Handler.handleDecrBy
handleDecrBy(st, t, args) ==
  IF Len(args) # 2 THEN Reply(st, NewError(ErrArity("decrby")))
  ELSE LET decrement == ParseInt(args[2])
       IN  IF ~decrement.ok THEN Reply(st, NewError(ErrNotInteger))
           ELSE incrementBy(st, t, args[1], I64Neg(decrement.val))

\* a proto.Command
Command(name, args) == [Name |-> name, Args |-> args]

\* Handler.HandleCommand
HandleCommand(st, t, c) ==
  CASE c.Name = S_PING   -> handlePing(st, t, c.Args)
    [] c.Name = S_ECHO   -> handleEcho(st, t, c.Args)
    [] c.Name = S_INFO   -> handleInfo(st, t, c.Args)
    [] c.Name = S_GET    -> handleGet(st, t, c.Args)
    [] c.Name = S_SET    -> handleSet(st, t, c.Args)
    [] c.Name = S_DEL    -> handleDel(st, t, c.Args)
    [] c.Name = S_EXISTS -> handleExists(st, t, c.Args)
    [] c.Name = S_EXPIRE -> handleExpire(st, t, c.Args)
    [] c.Name = S_TTL    -> handleTTL(st, t, c.Args)
    [] c.Name = S_DBSIZE -> handleDBSize(st, t, c.Args)
    [] c.Name = S_MGET   -> handleMGet(st, t, c.Args)
    [] c.Name = S_MSET   -> handleMSet(st, t, c.Args)
    [] c.Name = S_INCR   -> handleIncr(st, t, c.Args)
    [] c.Name = S_DECR   -> handleDecr(st, t, c.Args)
    [] c.Name = S_INCRBY -> handleIncrBy(st, t, c.Args)
    [] c.Name = S_DECRBY -> handleDecrBy(st, t, c.Args)
    [] c.Name = S_QUIT   -> Reply(st, NewSimpleString("OK"))
    [] OTHER             -> Reply(st, Response("Error", "ERR unknown command", I64Zero, c.Name, <<>>))


(***************************************************************************)
(* State.                                                                  *)
(*   store  the Store: its shards and its expired-keys counter             *)
(*   now    the clock, time.Now()                                          *)
(*   cmd    the command a handler was last called with                     *)
(*   resp   the reply it returned                                          *)
(*   pre    what the record of that command's first key was when the       *)
(*          handler was called (a history variable):                       *)
(*            "absent"      no record                                      *)
(*            "persistent"  a record without expiration                    *)
(*            "volatile"    a record whose deadline is ahead               *)
(*            "due"         a record whose deadline is the current instant *)
(*            "overdue"     a record whose deadline has passed             *)
(*            "none"        the command has no key                         *)
(*   conn      the connections served by Server.handleConnection: for each *)
(*             its place in the request loop, its input, the command and   *)
(*             the store call in progress, and the replies written         *)
(*   readers   for each shard, the connections holding its mu.RLock()      *)
(*   crashed   the Go runtime has stopped the process with a fatal error   *)
(*   lastPlain for each key, <<v>> when the last write of the key that     *)
(*             took effect was a SET of v without expiration, else <<>>    *)
(*             (a history variable)                                        *)
(*   ttlSeen   for each key, <<[at, n]>> when a TTL of the key replied     *)
(*             n >= 0 at clock at and the key was not written since, else  *)
(*             <<>> (a history variable)                                   *)
(*   srv       the Server: its connection counter, wait group, connection  *)
(*             table, shutdown channel and listener, the places of         *)
(*             ListenAndServe and Shutdown, and for each socket its state  *)
(*             and the place of its handleConnection goroutine             *)
(***************************************************************************)
VARIABLES store, now, cmd, resp, pre, conn, readers, crashed, lastPlain, ttlSeen, srv

seqVars == <<store, now, cmd, resp, pre>>

concVars == <<conn, readers, crashed, lastPlain>>

vars == <<store, now, cmd, resp, pre, conn, readers, crashed, lastPlain, ttlSeen, srv>>

\* the connections of the model
Conns == {1, 2}

\* no store call
NoCall == [op |-> "none", key |-> <<>>, value |-> <<>>, expiration |-> <<>>, duration |-> 0]

\* the locals of a handler between its store calls: the argument index i, the
\* count n, the values collected, the int64 x, and the number of calls made
NoAcc == [i |-> 0, n |-> 0, vals |-> <<>>, x |-> I64Zero, stage |-> 0]

\* a connection that has just been accepted, with the commands it will send
NewConn(input) ==
  [pc |-> "parse", inp |-> input, pos |-> 0, cur |-> Command(<<>>, <<>>),
   call |-> NoCall, acc |-> NoAcc, resp |-> Response("None", "", I64Zero, <<>>, <<>>),
   out |-> <<>>]

\* the sockets of the model
Socks == {1, 2}

\* ServerConfig.ReadTimeout and WriteTimeout, 0 for none
Timeouts(r, w) == [ReadTimeout |-> r, WriteTimeout |-> w]

NoTimeouts == Timeouts(0, 0)

\* a socket no client has dialed: its state, the place of its handler, its
\* read and write deadlines, the commands waiting in it, whether the client
\* has sent, has closed its end, and the replies written to it; late tells
\* that it was accepted when the shutdown channel was already closed
NewSock ==
  [st |-> "idle", h |-> "none", rdl |-> <<>>, wdl |-> <<>>, inq |-> 0, sent |-> FALSE,
   hung |-> FALSE, out |-> <<>>, late |-> FALSE]

\* server.New: the Server before ListenAndServe
NewServer(cfg) ==
  [config |-> cfg, connCount |-> 0, wg |-> 0, connections |-> {}, shutdown |-> FALSE,
   listener |-> FALSE, net |-> "none", las |-> "init", sd |-> "idle",
   socks |-> [c \in Socks |-> NewSock]]

\* whether the shard of key k holds a record for it
Has(st, k) == k \in DOMAIN st.shards[getShard(k)]

\* the record of key k
Rec(st, k) == st.shards[getShard(k)][k]

\* the state of key k's record at clock t
KeyStatus(st, k, t) ==
  IF ~Has(st, k) THEN "absent"
  ELSE IF Rec(st, k).ExpiresAt = <<>> THEN "persistent"
  ELSE IF Rec(st, k).ExpiresAt[1] > t THEN "volatile"
  ELSE IF Rec(st, k).ExpiresAt[1] = t THEN "due"
  ELSE "overdue"

\* no command has been handled since the clock last advanced
NoCommand == Command(<<>>, <<>>)

NoResponse == Response("None", "", I64Zero, <<>>, <<>>)

\* the state after store.New and NewHandler
Init ==
  /\ store = New
  /\ now = 0
  /\ cmd = NoCommand
  /\ resp = NoResponse
  /\ pre = "none"
  /\ conn = [c \in Conns |-> NewConn(<<>>)]
  /\ readers = [i \in 0..(Shards - 1) |-> {}]
  /\ crashed = FALSE
  /\ lastPlain = [k \in AllKeys |-> <<>>]
  /\ ttlSeen = [k \in AllKeys |-> <<>>]
  /\ srv = NewServer(NoTimeouts)

\* time passes
Tick ==
  /\ now < MaxTicks * TickStep
  /\ now' = now + TickStep
  /\ cmd' = NoCommand
  /\ resp' = NoResponse
  /\ pre' = "none"
  /\ ~crashed
  /\ UNCHANGED <<store, concVars, ttlSeen, srv>>

\* one call of Handler.HandleCommand
Exec(c) ==
  LET r == HandleCommand(store, now, c)
  IN  /\ r.st.expiredCount <= MaxExpired
      /\ store' = r.st
      /\ cmd' = c
      /\ resp' = r.resp
      /\ pre' = IF Len(c.Args) = 0 THEN "none" ELSE KeyStatus(store, c.Args[1], now)
      /\ UNCHANGED <<now, concVars, ttlSeen, srv>>

(***************************************************************************)
(* Spec: one client issuing key and expiration commands.                   *)
(***************************************************************************)
Keys == {S_a, S_b}

Vals == {S_v1, S_v2}

\* the option lists SET accepts
GoodOpts == { <<>>, <<S_PX, S_500>>, <<S_ex, S_2>> }

\* option lists with a conditional, unknown, incomplete or conflicting option
OddOpts ==
  { <<S_NX>>, <<S_XX>>, <<S_NX, S_XX>>, <<S_FOO>>,
    <<S_EX>>, <<S_PX>>, <<S_EX, S_invalid>>, <<S_EX, S_2, S_PX, S_500>> }

DoSET ==
  \/ \E k \in Keys, o \in GoodOpts : Exec(Command(S_SET, <<k, S_v1>> \o o))
  \/ \E v \in Vals, o \in GoodOpts \cup OddOpts : Exec(Command(S_SET, <<S_a, v>> \o o))

DoGET == \E k \in Keys : Exec(Command(S_GET, <<k>>))

DoDEL == \E k \in Keys : Exec(Command(S_DEL, <<k>>))

DoEXISTS == \E k \in Keys : Exec(Command(S_EXISTS, <<k>>))

DoEXPIRE == \E k \in Keys, s \in {S_1, S_invalid} : Exec(Command(S_EXPIRE, <<k, s>>))

DoTTL == \E k \in Keys : Exec(Command(S_TTL, <<k>>))

DoDBSIZE == Exec(Command(S_DBSIZE, <<>>))

Next == Tick \/ DoSET \/ DoGET \/ DoDEL \/ DoEXISTS \/ DoEXPIRE \/ DoTTL \/ DoDBSIZE

Spec == Init /\ [][Next]_vars


(***************************************************************************)
(* Claims about the handlers, checked on Spec.                             *)
(***************************************************************************)
\* the step is a call of the handler of command name with first argument k
Called(name, k) == cmd'.Name = name /\ Len(cmd'.Args) >= 1 /\ cmd'.Args[1] = k

\* C4: a GET of a key whose deadline has been reached (now >= expires_at,
\* the instant now = expires_at included) replies null-bulk and removes the
\* record before returning.
C4_GetAtDeadlineIsAbsent ==
  [][\A k \in Keys :
       (cmd' = Command(S_GET, <<k>>) /\ KeyStatus(store, k, now) \in {"due", "overdue"})
         => (resp' = NewNullBulkString /\ ~Has(store', k))]_vars

\* max(1, floor(remaining seconds)) for a remaining time in milliseconds
C5_Seconds(remaining) == IF remaining \div Second < 1 THEN 1 ELSE remaining \div Second

\* C5: TTL replies -2 for an absent key, -1 for a key without expiration,
\* max(1, floor(remaining seconds)) for a key whose deadline is ahead, and
\* -2 after removing the record for a key whose deadline has passed; the
\* first three leave the store as it was.
C5_TTLReplies ==
  [][\A k \in Keys : cmd' = Command(S_TTL, <<k>>) =>
       LET s == KeyStatus(store, k, now)
       IN  /\ s = "absent" => (resp' = NewInteger(I64(-2)) /\ store' = store)
           /\ s = "persistent" => (resp' = NewInteger(I64(-1)) /\ store' = store)
           /\ s = "volatile" =>
                /\ resp' = NewInteger(I64(C5_Seconds(Rec(store, k).ExpiresAt[1] - now)))
                /\ resp'.Int # I64Zero
                /\ store' = store
           /\ s \in {"due", "overdue"} =>
                (resp' = NewInteger(I64(-2)) /\ ~Has(store', k))]_vars

\* C5 happens: TTL has rounded a remaining half second up to 1
C5_Witness ==
  \E k \in Keys :
    /\ cmd = Command(S_TTL, <<k>>)
    /\ pre = "volatile"
    /\ Rec(store, k).ExpiresAt[1] - now < Second
    /\ resp = NewInteger(I64(1))

\* C8: SET k v NX on a live key and SET k v XX on an absent key reply null-bulk
\* and leave the store as it was; SET k v NX on an absent key and SET k v XX
\* on a live key store v and reply OK.
C8_SetNXAndXX ==
  [][\A k \in Keys, v \in Vals :
       /\ (cmd' = Command(S_SET, <<k, v, S_NX>>) /\ Exists(store, k, now))
            => (resp' = NewNullBulkString /\ store' = store)
       /\ (cmd' = Command(S_SET, <<k, v, S_XX>>) /\ ~Has(store, k))
            => (resp' = NewNullBulkString /\ store' = store)
       /\ (cmd' = Command(S_SET, <<k, v, S_NX>>) /\ ~Has(store, k))
            => (resp' = NewSimpleString("OK") /\ Has(store', k) /\ Rec(store', k).Data = v)
       /\ (cmd' = Command(S_SET, <<k, v, S_XX>>) /\ Exists(store, k, now))
            => (resp' = NewSimpleString("OK") /\ Has(store', k) /\ Rec(store', k).Data = v)]_vars

\* C9: a plain SET k v replies OK and leaves k without expiration, so that TTL k
\* is -1 at once; and a record without expiration stays as it is through every
\* command that is not a SET, EXPIRE or DEL of its key, and through time.
C9_PlainSetClearsExpiration ==
  [][/\ \A k \in Keys, v \in Vals : cmd' = Command(S_SET, <<k, v>>) =>
          /\ resp' = NewSimpleString("OK")
          /\ Has(store', k)
          /\ Rec(store', k).ExpiresAt = <<>>
          /\ TTL(store', k, now').ret = -1
     /\ \A k \in Keys :
          (/\ KeyStatus(store, k, now) = "persistent"
           /\ ~Called(S_SET, k) /\ ~Called(S_EXPIRE, k) /\ ~Called(S_DEL, k))
            => (Has(store', k) /\ Rec(store', k) = Rec(store, k))]_vars

\* C9 happens: a plain SET was applied to a key that had a deadline ahead
C9_Witness ==
  \E k \in Keys, v \in Vals :
    /\ cmd = Command(S_SET, <<k, v>>)
    /\ pre = "volatile"
    /\ resp = NewSimpleString("OK")
    /\ KeyStatus(store, k, now) = "persistent"

\* the option lists C10 names: both EX and PX, both NX and XX, an unknown token,
\* EX or PX without its argument
C10_SyntaxErrorOpts ==
  { <<S_EX, S_2, S_PX, S_500>>, <<S_NX, S_XX>>, <<S_FOO>>, <<S_EX>>, <<S_PX>> }

\* C10: a SET with both EX and PX, both NX and XX, an unknown option token, or
\* EX/PX without its argument replies "ERR syntax error"; and a SET that
\* replies with an error leaves the store as it was.
C10_SetSyntaxErrors ==
  [][/\ \A k \in Keys, v \in Vals, o \in C10_SyntaxErrorOpts :
          cmd' = Command(S_SET, <<k, v>> \o o) => resp' = NewError(ErrSyntax)
     /\ (cmd'.Name = S_SET /\ resp'.Type = "Error") => store' = store]_vars


(***************************************************************************)
(* SpecNum: one client issuing the counter commands on values at the edges *)
(* of int64.                                                               *)
(***************************************************************************)
\* whether x is within NumWindow of 0, of MaxInt64 or of MinInt64
NearEdge(x) ==
  \/ ~I64Less(x, I64(-NumWindow)) /\ ~I64Less(I64(NumWindow), x)
  \/ ~I64Less(x, I64Add(MaxInt64, I64(-NumWindow)))
  \/ ~I64Less(I64Add(MinInt64, I64(NumWindow)), x)

\* every stored value that is an integer is near an edge
NumInWindow(st) ==
  \A k \in AllKeys :
    (Has(st, k) /\ ParseInt(Rec(st, k).Data).ok) => NearEdge(ParseInt(Rec(st, k).Data).val)

\* a call of the handler that leaves the counters within the window
ExecNum(c) == Exec(c) /\ NumInWindow(store')

NumKeys == {S_a}

\* the values SET writes
NumVals == {S_0, S_MaxInt64, S_MinInt64, S_v1, S_TooBig}

\* the deltas given to INCRBY and DECRBY
NumDeltas == {S_1, S_m1, S_2, S_MaxInt64, S_MinInt64, S_invalid}

NumSET == \E k \in NumKeys, v \in NumVals : ExecNum(Command(S_SET, <<k, v>>))

NumGET == \E k \in NumKeys : ExecNum(Command(S_GET, <<k>>))

NumDEL == \E k \in NumKeys : ExecNum(Command(S_DEL, <<k>>))

NumINCR == \E k \in NumKeys : ExecNum(Command(S_INCR, <<k>>))

NumDECR == \E k \in NumKeys : ExecNum(Command(S_DECR, <<k>>))

NumINCRBY == \E k \in NumKeys, d \in NumDeltas : ExecNum(Command(S_INCRBY, <<k, d>>))

NumDECRBY == \E k \in NumKeys, d \in NumDeltas : ExecNum(Command(S_DECRBY, <<k, d>>))

NextNum == NumSET \/ NumGET \/ NumDEL \/ NumINCR \/ NumDECR \/ NumINCRBY \/ NumDECRBY

SpecNum == Init /\ [][NextNum]_vars

(***************************************************************************)
(* Claims about the counter commands, checked on SpecNum.                  *)
(***************************************************************************)
\* the integer a counter command finds under key k: 0 when k is absent
NumCurrent(st, k) == IF Has(st, k) THEN ParseInt(Rec(st, k).Data) ELSE [ok |-> TRUE, val |-> I64Zero]

\* x + y lies outside int64: the operands agree in sign and the wrapped sum does not
AddOverflows(x, y) ==
  I64IsNeg(x) = I64IsNeg(y) /\ I64IsNeg(I64Add(x, y)) # I64IsNeg(x)

\* x - y lies outside int64: the operands differ in sign and the wrapped
\* difference has not the sign of x
SubOverflows(x, y) ==
  I64IsNeg(x) # I64IsNeg(y) /\ I64IsNeg(I64Add(x, I64Neg(y))) # I64IsNeg(x)

\* C6: an INCR, DECR, INCRBY or DECRBY whose result current + delta (current -
\* delta for DECR and DECRBY) lies outside the signed 64-bit range replies
\* "ERR value is not an integer or out of range" and leaves the store as it was.
C6_OverflowIsRejected ==
  [][\A k \in NumKeys :
       LET cur == NumCurrent(store, k)
           arg == IF Len(cmd'.Args) = 2 THEN ParseInt(cmd'.Args[2]) ELSE [ok |-> TRUE, val |-> I64(1)]
           out == \/ cmd'.Name \in {S_INCR, S_INCRBY} /\ AddOverflows(cur.val, arg.val)
                  \/ cmd'.Name \in {S_DECR, S_DECRBY} /\ SubOverflows(cur.val, arg.val)
       IN  (/\ cmd'.Name \in {S_INCR, S_INCRBY, S_DECR, S_DECRBY}
            /\ cmd'.Args[1] = k
            /\ cur.ok /\ arg.ok /\ out)
             => (resp' = NewError(ErrNotInteger) /\ store' = store)]_vars

\* the step is a counter command on key k with the right number of arguments
NumCalled(k) ==
  /\ Len(cmd'.Args) >= 1 /\ cmd'.Args[1] = k
  /\ \/ cmd'.Name \in {S_INCR, S_DECR} /\ Len(cmd'.Args) = 1
     \/ cmd'.Name \in {S_INCRBY, S_DECRBY} /\ Len(cmd'.Args) = 2

\* the delta of the counter command of the step: 1 for INCR and DECR
NumDelta == IF Len(cmd'.Args) = 2 THEN ParseInt(cmd'.Args[2]) ELSE [ok |-> TRUE, val |-> I64(1)]

\* the result of the counter command of the step lies outside int64
NumOverflows(cur) ==
  \/ cmd'.Name \in {S_INCR, S_INCRBY} /\ AddOverflows(cur, NumDelta.val)
  \/ cmd'.Name \in {S_DECR, S_DECRBY} /\ SubOverflows(cur, NumDelta.val)

\* s is the canonical decimal form of an integer: an optional minus sign, then
\* digits without a leading zero, "0" itself excepted
Canonical(s) ==
  LET digits == IF s[1] = 45 THEN SubSeq(s, 2, Len(s)) ELSE s
  IN  /\ Len(digits) >= 1
      /\ \A i \in 1..Len(digits) : IsDigit(digits[i])
      /\ digits[1] = 48 => (Len(digits) = 1 /\ s[1] # 45)

\* C15: a counter command whose result does not overflow replies current +
\* delta (current - delta for DECR and DECRBY), an absent key counting as 0, so
\* that from an absent key INCRBY k n replies n and a following INCRBY k m
\* replies n + m; and after it GET k replies the canonical decimal string of
\* the integer just replied.
C15_CounterArithmetic ==
  [][\A k \in NumKeys :
       LET cur == NumCurrent(store, k)
           expected == IF cmd'.Name \in {S_INCR, S_INCRBY}
                         THEN I64Add(cur.val, NumDelta.val)
                       ELSE I64Add(cur.val, I64Neg(NumDelta.val))
       IN  (NumCalled(k) /\ cur.ok /\ NumDelta.ok /\ ~NumOverflows(cur.val)) =>
             /\ resp' = NewInteger(expected)
             /\ ~Has(store, k) => resp'.Int = (IF cmd'.Name \in {S_INCR, S_INCRBY}
                                                THEN NumDelta.val ELSE I64Neg(NumDelta.val))
             /\ (cmd.Name = S_INCRBY /\ cmd.Args[1] = k /\ pre = "absent"
                   /\ resp.Type = "Integer" /\ cmd'.Name = S_INCRBY)
                  => resp'.Int = I64Add(ParseInt(cmd.Args[2]).val, NumDelta.val)
             /\ handleGet(store', now', <<k>>).resp.Type = "BulkString"
             /\ Canonical(handleGet(store', now', <<k>>).resp.Bulk)
             /\ ParseInt(handleGet(store', now', <<k>>).resp.Bulk)
                  = [ok |-> TRUE, val |-> resp'.Int]]_vars

\* C15 happens: INCRBY a -1 on the counter 2 has replied 1, now stored as "1"
C15_Witness ==
  /\ cmd = Command(S_INCRBY, <<S_a, S_m1>>)
  /\ pre = "persistent"
  /\ resp = NewInteger(I64(1))
  /\ Rec(store, S_a).Data = S_1

Done(r) == [done |-> TRUE, resp |-> r, call |-> NoCall, acc |-> NoAcc]

\* a handler calls the store, with its locals acc
Call(call, acc) == [done |-> FALSE, resp |-> NoResponse, call |-> call, acc |-> acc]

\* the store calls
CallGet(key) == [NoCall EXCEPT !.op = "Get", !.key = key]

CallSet(key, value, expiration) ==
  [NoCall EXCEPT !.op = "Set", !.key = key, !.value = value, !.expiration = expiration]

CallDelete(key) == [NoCall EXCEPT !.op = "Delete", !.key = key]

CallExists(key) == [NoCall EXCEPT !.op = "Exists", !.key = key]

CallExpire(key, duration) == [NoCall EXCEPT !.op = "Expire", !.key = key, !.duration = duration]

CallTTL(key) == [NoCall EXCEPT !.op = "TTL", !.key = key]

\* one round of the loop of Store.DBSize: len(shard.data) of shard number i,
\* kept in the duration field
CallLen(i) == [NoCall EXCEPT !.op = "Len", !.duration = i]

\* what a store call returns: a value, a boolean, a number
Ret(value, ok, n) == [value |-> value, ok |-> ok, n |-> n]

\* the shard a store call locks
CallShard(call) == IF call.op = "Len" THEN call.duration ELSE getShard(call.key)

\* HandleCommand and the handler it selects, up to the first store call
HandlerStart(c) ==
  LET args == c.Args
      arity(name) == Done(NewError(ErrArity(name)))
      incr(ok, increment) ==
        IF ~ok THEN Done(NewError(ErrNotInteger))
        ELSE Call(CallGet(args[1]), [NoAcc EXCEPT !.x = increment])
  IN  CASE c.Name = S_PING   -> Done(handlePing(New, 0, args).resp)
        [] c.Name = S_ECHO   -> Done(handleEcho(New, 0, args).resp)
        [] c.Name = S_INFO   -> Call(CallLen(0), NoAcc)
        [] c.Name = S_GET    -> IF Len(args) # 1 THEN arity("get")
                                ELSE Call(CallGet(args[1]), NoAcc)
        [] c.Name = S_SET    ->
             IF Len(args) < 2 THEN arity("set")
             ELSE LET o == SetOptions(args, 3, <<>>)
                  IN  IF o.err # "" THEN Done(NewError(o.err))
                      ELSE Call(CallSet(args[1], args[2], o.expiration), NoAcc)
        [] c.Name = S_DEL    -> IF Len(args) = 0 THEN arity("del")
                                ELSE Call(CallDelete(args[1]), [NoAcc EXCEPT !.i = 1])
        [] c.Name = S_EXISTS -> IF Len(args) = 0 THEN arity("exists")
                                ELSE Call(CallExists(args[1]), [NoAcc EXCEPT !.i = 1])
        [] c.Name = S_EXPIRE ->
             IF Len(args) # 2 THEN arity("expire")
             ELSE LET seconds == Atoi(args[2])
                  IN  IF ~seconds.ok THEN Done(NewError(ErrNotInteger))
                      ELSE Call(CallExpire(args[1], I64ToInt(seconds.val) * Second), NoAcc)
        [] c.Name = S_TTL    -> IF Len(args) # 1 THEN arity("ttl")
                                ELSE Call(CallTTL(args[1]), NoAcc)
        [] c.Name = S_DBSIZE -> IF Len(args) # 0 THEN arity("dbsize")
                                ELSE Call(CallLen(0), NoAcc)
        [] c.Name = S_MGET   -> IF Len(args) = 0 THEN arity("mget")
                                ELSE Call(CallGet(args[1]), [NoAcc EXCEPT !.i = 1])
        [] c.Name = S_MSET   -> IF Len(args) = 0 \/ Len(args) % 2 # 0 THEN arity("mset")
                                ELSE Call(CallSet(args[1], args[2], <<>>), [NoAcc EXCEPT !.i = 1])
        [] c.Name = S_INCR   -> IF Len(args) # 1 THEN arity("incr")
                                ELSE incr(TRUE, I64(1))
        [] c.Name = S_DECR   -> IF Len(args) # 1 THEN arity("decr")
                                ELSE incr(TRUE, I64(-1))
        [] c.Name = S_INCRBY -> IF Len(args) # 2 THEN arity("incrby")
                                ELSE LET increment == ParseInt(args[2])
                                     IN  incr(increment.ok, increment.val)
        [] c.Name = S_DECRBY -> IF Len(args) # 2 THEN arity("decrby")
                                ELSE LET decrement == ParseInt(args[2])
                                     IN  incr(decrement.ok, I64Neg(decrement.val))
        [] OTHER             -> Done(HandleCommand(New, 0, c).resp)

\* the handler of c from the return ret of its store call, with its locals acc
HandlerResume(c, acc, ret) ==
  LET args == c.Args
      count == IF ret.ok THEN acc.n + 1 ELSE acc.n
      size == acc.n + ret.n
  IN  CASE c.Name = S_GET    -> IF ~ret.ok THEN Done(NewNullBulkString)
                                ELSE Done(NewBulkString(ret.value))
        [] c.Name = S_SET    -> Done(NewSimpleString("OK"))
        [] c.Name = S_DEL    ->
             IF acc.i < Len(args)
               THEN Call(CallDelete(args[acc.i + 1]), [acc EXCEPT !.i = @ + 1, !.n = count])
             ELSE Done(NewInteger(I64(count)))
        [] c.Name = S_EXISTS ->
             IF acc.i < Len(args)
               THEN Call(CallExists(args[acc.i + 1]), [acc EXCEPT !.i = @ + 1, !.n = count])
             ELSE Done(NewInteger(I64(count)))
        [] c.Name = S_EXPIRE -> Done(NewInteger(I64(IF ret.ok THEN 1 ELSE 0)))
        [] c.Name = S_TTL    -> Done(NewInteger(I64(ret.n)))
        [] c.Name = S_DBSIZE \/ c.Name = S_INFO ->
             IF acc.i + 1 < Shards
               THEN Call(CallLen(acc.i + 1), [acc EXCEPT !.i = @ + 1, !.n = size])
             ELSE IF c.Name = S_INFO THEN Done(NewBulkString(FormatInt(I64(size))))
             ELSE Done(NewInteger(I64(size)))
        [] c.Name = S_MGET   ->
             LET values == Append(acc.vals, IF ret.ok THEN <<ret.value>> ELSE <<>>)
             IN  IF acc.i < Len(args)
                   THEN Call(CallGet(args[acc.i + 1]), [acc EXCEPT !.i = @ + 1, !.vals = values])
                 ELSE Done(NewArray(values))
        [] c.Name = S_MSET   ->
             IF 2 * acc.i < Len(args)
               THEN Call(CallSet(args[2 * acc.i + 1], args[2 * acc.i + 2], <<>>),
                         [acc EXCEPT !.i = @ + 1])
             ELSE Done(NewSimpleString("OK"))
        [] OTHER             ->
             \* Handler.incrementBy: Store.Get, then Store.Set
             IF acc.stage = 0
               THEN LET parsed == IF ret.ok THEN ParseInt(ret.value)
                                  ELSE [ok |-> TRUE, val |-> I64Zero]
                    IN  IF ~parsed.ok THEN Done(NewError(ErrNotInteger))
                        ELSE LET newValue == IncrSum(parsed.val, acc.x)
                             IN  Call(CallSet(args[1], FormatInt(newValue), <<>>),
                                      [acc EXCEPT !.x = newValue, !.stage = 1])
             ELSE Done(NewInteger(acc.x))


\* connection c goes on with its handler after a store call returned ret, or
\* after HandleCommand was entered (h is what the handler did next)
Proceed(c, h) ==
  conn' = [conn EXCEPT ![c] =
             IF h.done
               THEN [@ EXCEPT !.pc = "write", !.resp = h.resp, !.call = NoCall, !.acc = NoAcc]
             ELSE [@ EXCEPT !.pc = "call", !.call = h.call, !.acc = h.acc]]

Returns(c, ret) == Proceed(c, HandlerResume(conn[c].cur, conn[c].acc, ret))

RUnlock(c) == readers' = [readers EXCEPT ![CallShard(conn[c].call)] = @ \ {c}]

\* handleConnection: ParseCommand reads the next command (the connection is
\* closed when there is none) and HandleCommand is entered
ConnParse(c) ==
  /\ ~crashed
  /\ conn[c].pc = "parse"
  /\ IF conn[c].pos = Len(conn[c].inp)
       THEN conn' = [conn EXCEPT ![c].pc = "closed"]
     ELSE LET next == conn[c].inp[conn[c].pos + 1]
              h == HandlerStart(next)
          IN  conn' = [conn EXCEPT ![c] =
                IF h.done
                  THEN [@ EXCEPT !.pos = @ + 1, !.cur = next, !.pc = "write", !.resp = h.resp]
                ELSE [@ EXCEPT !.pos = @ + 1, !.cur = next, !.pc = "call",
                               !.call = h.call, !.acc = h.acc]]
  /\ UNCHANGED <<seqVars, readers, crashed, lastPlain, ttlSeen, srv>>

\* shard.mu.RLock() of Store.Get, Store.Exists and Store.DBSize: writers hold
\* the lock only within one step, so it is free for a reader
StoreRLock(c) ==
  /\ ~crashed
  /\ conn[c].pc = "call"
  /\ conn[c].call.op \in {"Get", "Exists", "Len"}
  /\ readers' = [readers EXCEPT ![CallShard(conn[c].call)] = @ \cup {c}]
  /\ conn' = [conn EXCEPT ![c].pc = "locked"]
  /\ UNCHANGED <<seqVars, crashed, lastPlain, ttlSeen, srv>>

\* Store.Get under the reader lock: the lookup and the expiry test.  A record
\* found expired is deleted in a further step, the reader lock still held.
StoreGetRead(c) ==
  /\ ~crashed
  /\ conn[c].pc = "locked"
  /\ conn[c].call.op = "Get"
  /\ LET key == conn[c].call.key
         m == store.shards[getShard(key)]
     IN  IF key \in DOMAIN m /\ GetExpired(m[key], now)
           THEN /\ conn' = [conn EXCEPT ![c].pc = "del"]
                /\ UNCHANGED readers
         ELSE /\ Returns(c, IF key \in DOMAIN m THEN Ret(m[key].Data, TRUE, 0)
                            ELSE Ret(<<>>, FALSE, 0))
              /\ RUnlock(c)
  /\ UNCHANGED <<seqVars, crashed, lastPlain, ttlSeen, srv>>

\* Store.Get deletes the expired record and counts it, holding the reader
\* lock only.  With another reader in the shard this is a data race on the
\* map: the step goes through, or the runtime stops the process with
\* "fatal error: concurrent map read and map write" (or "concurrent map
\* writes").
StoreGetDelete(c) ==
  /\ ~crashed
  /\ conn[c].pc = "del"
  /\ LET key == conn[c].call.key
         sh == getShard(key)
     IN  /\ store' = [MapDelete(store, key) EXCEPT !.expiredCount = @ + 1]
         /\ \/ crashed' = FALSE
            \/ readers[sh] \ {c} # {} /\ crashed' = TRUE
  /\ Returns(c, Ret(<<>>, FALSE, 0))
  /\ RUnlock(c)
  /\ UNCHANGED <<now, cmd, resp, pre, lastPlain, ttlSeen, srv>>

\* Store.Exists under the reader lock
StoreExistsRead(c) ==
  /\ ~crashed
  /\ conn[c].pc = "locked"
  /\ conn[c].call.op = "Exists"
  /\ Returns(c, Ret(<<>>, Exists(store, conn[c].call.key, now), 0))
  /\ RUnlock(c)
  /\ UNCHANGED <<seqVars, crashed, lastPlain, ttlSeen, srv>>

\* one round of Store.DBSize under the reader lock of one shard
StoreLenRead(c) ==
  /\ ~crashed
  /\ conn[c].pc = "locked"
  /\ conn[c].call.op = "Len"
  /\ Returns(c, Ret(<<>>, FALSE, Cardinality(DOMAIN store.shards[conn[c].call.duration])))
  /\ RUnlock(c)
  /\ UNCHANGED <<seqVars, crashed, lastPlain, ttlSeen, srv>>

\* Store.Set, Store.Delete, Store.Expire, Store.TTL: the whole call under
\* shard.mu.Lock(), which waits until no reader holds the lock
StoreWrite(c) ==
  /\ ~crashed
  /\ conn[c].pc = "call"
  /\ conn[c].call.op \in {"Set", "Delete", "Expire", "TTL"}
  /\ readers[CallShard(conn[c].call)] = {}
  /\ LET call == conn[c].call
         key == call.key
     IN  CASE call.op = "Set" ->
                /\ store' = Set(store, key, call.value, call.expiration, now)
                /\ lastPlain' = [lastPlain EXCEPT ![key] =
                                   IF call.expiration = <<>> THEN <<call.value>> ELSE <<>>]
                /\ Returns(c, Ret(<<>>, TRUE, 0))
           [] call.op = "Delete" ->
                LET d == Delete(store, key)
                IN  /\ store' = d.st
                    /\ lastPlain' = [lastPlain EXCEPT ![key] = IF d.ret THEN <<>> ELSE @]
                    /\ Returns(c, Ret(<<>>, d.ret, 0))
           [] call.op = "Expire" ->
                LET e == Expire(store, key, call.duration, now)
                IN  /\ store' = e.st
                    /\ lastPlain' = [lastPlain EXCEPT ![key] = IF e.ret THEN <<>> ELSE @]
                    /\ Returns(c, Ret(<<>>, e.ret, 0))
           [] call.op = "TTL" ->
                LET r == TTL(store, key, now)
                IN  /\ store' = r.st
                    /\ UNCHANGED lastPlain
                    /\ Returns(c, Ret(<<>>, FALSE, r.ret))
  /\ UNCHANGED <<now, cmd, resp, pre, readers, crashed, ttlSeen, srv>>

\* ConnWrite with the slip of putting the newest reply ahead of the earlier ones
ConnWrite_NewestFirst(c) ==
  /\ ~crashed
  /\ conn[c].pc = "write"
  /\ conn' = [conn EXCEPT ![c] =
                [@ EXCEPT !.pc = "parse",
                          !.out = <<[cmd |-> conn[c].cur, resp |-> conn[c].resp]>> \o @]]
  /\ UNCHANGED <<seqVars, readers, crashed, lastPlain, ttlSeen, srv>>

\* handleConnection: the metrics are updated and WriteResponse writes the
\* reply to the command just handled
ConnWrite(c) ==
  /\ ~crashed
  /\ conn[c].pc = "write"
  /\ conn' = [conn EXCEPT ![c] =
                [@ EXCEPT !.pc = "parse",
                          !.out = Append(@, [cmd |-> conn[c].cur, resp |-> conn[c].resp])]]
  /\ UNCHANGED <<seqVars, readers, crashed, lastPlain, ttlSeen, srv>>


(***************************************************************************)
(* The concurrent specification: each connection sends one of a few        *)
(* pipelines, and the steps of the connections interleave as the           *)
(* scheduler lets them.                                                    *)
(***************************************************************************)
PipeExample ==
  <<Command(S_PING, <<>>), Command(S_SET, <<S_a, S_1>>),
    Command(S_INCR, <<S_a>>), Command(S_INCR, <<S_a>>)>>

PipeIncr == <<Command(S_INCR, <<S_a>>)>>

PipeVolatile ==
  <<Command(S_SET, <<S_a, S_v1, S_PX, S_500>>), Command(S_GET, <<S_a>>),
    Command(S_GET, <<S_c>>)>>

PipeRead ==
  <<Command(S_GET, <<S_a>>), Command(S_EXISTS, <<S_a>>), Command(S_TTL, <<S_a>>)>>

PipeWrite ==
  <<Command(S_SET, <<S_a, S_v1>>), Command(S_GET, <<S_a>>),
    Command(S_DEL, <<S_a>>), Command(S_GET, <<S_a>>)>>

PipeOther ==
  <<Command(S_SET, <<S_c, S_v2>>), Command(S_EXPIRE, <<S_a, S_1>>),
    Command(S_DBSIZE, <<>>), Command(S_GET, <<S_a>>)>>

Pipelines == {PipeExample, PipeIncr, PipeVolatile, PipeRead, PipeWrite, PipeOther}

InitConc ==
  /\ store = New
  /\ now = 0
  /\ cmd = NoCommand
  /\ resp = NoResponse
  /\ pre = "none"
  /\ conn \in [Conns -> {NewConn(p) : p \in Pipelines}]
  /\ readers = [i \in 0..(Shards - 1) |-> {}]
  /\ crashed = FALSE
  /\ lastPlain = [k \in AllKeys |-> <<>>]
  /\ ttlSeen = [k \in AllKeys |-> <<>>]
  /\ srv = NewServer(NoTimeouts)

NextConc ==
  \/ Tick
  \/ \E c \in Conns : ConnParse(c)
  \/ \E c \in Conns : StoreRLock(c)
  \/ \E c \in Conns : StoreGetRead(c)
  \/ \E c \in Conns : StoreGetDelete(c)
  \/ \E c \in Conns : StoreExistsRead(c)
  \/ \E c \in Conns : StoreLenRead(c)
  \/ \E c \in Conns : StoreWrite(c)
  \/ \E c \in Conns : ConnWrite(c)

SpecConc == InitConc /\ [][NextConc]_vars


(***************************************************************************)
(* Claims checked on SpecConc.                                             *)
(***************************************************************************)

\* C1: once a SET k v without expiration has taken effect, and until a later
\* write or delete of k takes effect, every GET k, on whichever connection,
\* replies the bulk string v: the lookup of a GET that finds k's last write to
\* be such a SET ends in the reply v, not in a null reply, another value or the
\* removal of the record.
C1_GetReturnsLastSet ==
  [][\A c \in Conns :
       (/\ conn[c].pc = "locked"
        /\ conn[c].call.op = "Get"
        /\ conn[c].cur.Name = S_GET
        /\ lastPlain[conn[c].call.key] # <<>>
        /\ conn'[c].pc # "locked")
         => (/\ conn'[c].pc = "write"
             /\ conn'[c].resp = NewBulkString(lastPlain[conn[c].call.key][1]))]_vars

\* C1 happens: a connection that only reads has got v1 for key a, which the
\* other connection had set, after time has passed
C1_Witness ==
  \E c, d \in Conns :
    /\ conn[c].inp = PipeRead
    /\ conn[d].inp = PipeWrite
    /\ now > 0
    /\ lastPlain[S_a] = <<S_v1>>
    /\ conn[c].pc = "write"
    /\ conn[c].cur = Command(S_GET, <<S_a>>)
    /\ conn[c].resp = NewBulkString(S_v1)

\* C2: the operations on one shard are serialized; in particular the map of a
\* shard changes only in a step of an operation that holds the shard's lock as
\* a writer, that is, while no connection holds the shard's reader lock.
C2_ShardSerialized ==
  [][\A i \in 0..(Shards - 1) :
       store'.shards[i] # store.shards[i] => readers[i] = {}]_vars

\* the connections whose whole input is one INCR a
IncrClients == {c \in Conns : conn[c].inp = PipeIncr}

\* C3: when N connections each send INCR of the same absent key, then after all
\* have been answered the stored value is N and the N replies are the N
\* distinct integers 1..N: no increment is lost.
C3_NoLostIncrement ==
  (IncrClients = Conns /\ \A c \in Conns : conn[c].pc = "closed")
    => (/\ Has(store, S_a)
        /\ Rec(store, S_a).Data = FormatInt(I64(Cardinality(Conns)))
        /\ {conn[c].out[1].resp.Int : c \in Conns}
             = {I64(n) : n \in 1..Cardinality(Conns)})

\* the replies to PipeExample
ExampleReplies ==
  <<NewSimpleString("PONG"), NewSimpleString("OK"), NewInteger(I64(2)), NewInteger(I64(3))>>

\* C7: on each connection the i-th reply written is the reply to the i-th
\* command read, no command is begun before the reply to the one before it has
\* been written, and PING; SET a 1; INCR a; INCR a is answered +PONG, +OK, :2,
\* :3 in that order whatever a connection that does not write a does meanwhile.
C7_RepliesInOrder ==
  \A c \in Conns :
    /\ Len(conn[c].out)
         = IF conn[c].pc \in {"parse", "closed"} THEN conn[c].pos ELSE conn[c].pos - 1
    /\ \A i \in 1..Len(conn[c].out) : conn[c].out[i].cmd = conn[c].inp[i]
    /\ (conn[c].inp = PipeExample /\ \A d \in Conns \ {c} : conn[d].inp = PipeRead)
         => \A i \in 1..Len(conn[c].out) : conn[c].out[i].resp = ExampleReplies[i]

\* C7 happens: the example pipeline has been answered in full while the other
\* connection was being served
C7_Witness ==
  \E c, d \in Conns :
    /\ c # d
    /\ conn[c].inp = PipeExample
    /\ conn[d].inp = PipeRead
    /\ conn[d].pos > 0
    /\ conn[d].pc # "closed"
    /\ Len(conn[c].out) = 4
    /\ \A i \in 1..4 : conn[c].out[i].resp = ExampleReplies[i]



(***************************************************************************)
(* SpecMulti: one client issuing SET with durations of zero and below, and *)
(* the commands that take several keys.                                    *)
(***************************************************************************)
\* the option lists of SET: none, a deadline ahead, and durations <= 0
EdgeOpts == { <<>>, <<S_PX, S_500>>, <<S_EX, S_0>>, <<S_PX, S_m1>>, <<S_EX, S_m1>> }

\* the key lists given to DEL and EXISTS
KeyLists == { <<S_a>>, <<S_a, S_a>>, <<S_a, S_b>>, <<S_c>> }

MultiSET ==
  \/ \E o \in EdgeOpts : Exec(Command(S_SET, <<S_a, S_1>> \o o))
  \/ Exec(Command(S_SET, <<S_b, S_2>>))

MultiGET == Exec(Command(S_GET, <<S_a>>))

MultiDEL == \E ks \in KeyLists : Exec(Command(S_DEL, ks))

MultiEXISTS == \E ks \in KeyLists : Exec(Command(S_EXISTS, ks))

MultiMGET == \E ks \in {<<S_a, S_c, S_b>>, <<S_a, S_a>>} : Exec(Command(S_MGET, ks))

MultiMSET == Exec(Command(S_MSET, <<S_a, S_1, S_b, S_2>>))

MultiEXPIRE == Exec(Command(S_EXPIRE, <<S_a, S_1>>))

MultiTTL == Exec(Command(S_TTL, <<S_a>>))

MultiDBSIZE == Exec(Command(S_DBSIZE, <<>>))

NextMulti ==
  \/ Tick \/ MultiSET \/ MultiGET \/ MultiDEL \/ MultiEXISTS \/ MultiMGET \/ MultiMSET
  \/ MultiEXPIRE \/ MultiTTL \/ MultiDBSIZE

SpecMulti == Init /\ [][NextMulti]_vars

(***************************************************************************)
(* Claims checked on SpecMulti.                                            *)
(***************************************************************************)
\* the step is SET with the one option EX n or PX n, n an integer <= 0
C11_NonPositiveDuration ==
  /\ cmd'.Name = S_SET
  /\ Len(cmd'.Args) = 4
  /\ ToUpper(cmd'.Args[3]) \in {S_EX, S_PX}
  /\ Atoi(cmd'.Args[4]).ok
  /\ ~I64Less(I64Zero, Atoi(cmd'.Args[4]).val)

\* C11: SET k v EX n and SET k v PX n with n <= 0 reply with an error and
\* leave the store as it was: no record is written that is expired already.
C11_SetRejectsNonPositive ==
  [][C11_NonPositiveDuration => (resp'.Type = "Error" /\ store' = store)]_vars

\* key k has a record at clock t whose deadline, if any, is still ahead
Live(st, k, t) == KeyStatus(st, k, t) \in {"persistent", "volatile"}

\* C12: DEL k counts 1 exactly when it removed a live record; on a record whose
\* deadline has passed it counts 0; either way no record of k is left, so that
\* a GET k that follows replies null-bulk and a second DEL k counts 0.  (The
\* instant of the deadline itself is left open here.)
C12_DeleteCountsLive ==
  [][\A k \in AllKeys :
       (cmd' = Command(S_DEL, <<k>>) /\ KeyStatus(store, k, now) # "due") =>
       /\ resp' = NewInteger(I64(IF Live(store, k, now) THEN 1 ELSE 0))
       /\ ~Has(store', k)
       /\ handleGet(store', now', <<k>>).resp = NewNullBulkString
       /\ handleDel(store', now', <<k>>).resp = NewInteger(I64Zero)]_vars

\* C13: EXPIRE k s replies 0 exactly when k has no live record, and then gives
\* no record a deadline; otherwise it replies 1 and sets the deadline of k to
\* now + s, leaving the value of k as it was.  (The instant of the deadline
\* itself is left open here.)
C13_ExpireOnlyLive ==
  [][\A k \in AllKeys : (/\ Called(S_EXPIRE, k) /\ Len(cmd'.Args) = 2 /\ Atoi(cmd'.Args[2]).ok
                          /\ KeyStatus(store, k, now) # "due") =>
       IF Live(store, k, now)
         THEN /\ resp' = NewInteger(I64(1))
              /\ Has(store', k)
              /\ Rec(store', k).ExpiresAt = <<now + I64ToInt(Atoi(cmd'.Args[2]).val) * Second>>
              /\ Rec(store', k).Data = Rec(store, k).Data
       ELSE /\ resp' = NewInteger(I64Zero)
            /\ Has(store', k) => (Has(store, k) /\ Rec(store', k) = Rec(store, k))]_vars

\* C14: EXISTS k counts 1 exactly when a GET k at the same instant would reply
\* a value, and when it finds a record whose deadline has passed it removes the
\* record and counts one expiration.
C14_ExistsAsGet ==
  [][\A k \in AllKeys : cmd' = Command(S_EXISTS, <<k>>) =>
       /\ resp' = NewInteger(I64(IF Get(store, k, now).exists THEN 1 ELSE 0))
       /\ KeyStatus(store, k, now) = "overdue" =>
            /\ ~Has(store', k)
            /\ GetExpiredKeysCount(store') = GetExpiredKeysCount(store) + 1]_vars


\* C17: DEL replies the number of argument positions whose key it removed as a
\* live record, EXISTS the number of positions whose key was live, each
\* position taken in its turn from the left: DEL k k on a live k replies 1,
\* EXISTS k k on a live k replies 2, and a record whose deadline has been
\* reached counts 0.
C17_CountsPerPosition ==
  [][/\ (cmd'.Name = S_DEL /\ Len(cmd'.Args) >= 1) =>
          resp' = NewInteger(I64(Cardinality(
                    {i \in 1..Len(cmd'.Args) :
                       /\ Live(store, cmd'.Args[i], now)
                       /\ \A j \in 1..(i - 1) : cmd'.Args[j] # cmd'.Args[i]})))
     /\ (cmd'.Name = S_EXISTS /\ Len(cmd'.Args) >= 1) =>
          resp' = NewInteger(I64(Cardinality(
                    {i \in 1..Len(cmd'.Args) : Live(store, cmd'.Args[i], now)})))]_vars

\* C18: MGET k1..kn replies an array of n elements, element i being the value
\* of ki when ki is live at its lookup and null when ki is absent or its
\* deadline has been reached, in the order of the arguments.
C18_MGetPerPosition ==
  [][(cmd'.Name = S_MGET /\ Len(cmd'.Args) >= 1) =>
       /\ resp'.Type = "Array"
       /\ Len(resp'.Arr) = Len(cmd'.Args)
       /\ \A i \in 1..Len(cmd'.Args) :
            resp'.Arr[i] = IF Live(store, cmd'.Args[i], now)
                             THEN <<Rec(store, cmd'.Args[i]).Data>>
                           ELSE <<>>]_vars


\* the keys the command of the step writes: every key of MSET, the first
\* argument of SET and of the counter commands
C19_Written ==
  IF cmd'.Name = S_MSET
    THEN {cmd'.Args[i] : i \in {j \in 1..Len(cmd'.Args) : j % 2 = 1}}
  ELSE IF cmd'.Name \in {S_SET, S_INCR, S_DECR, S_INCRBY, S_DECRBY} /\ Len(cmd'.Args) >= 1
    THEN {cmd'.Args[1]}
  ELSE {}

\* C19: the versions a key is given by successive writes increase strictly: a
\* write that succeeds on a key that has a record stores a version larger than
\* that of the record it replaces, two writes within one clock tick included.
C19_VersionIncreases ==
  [][\A k \in AllKeys :
       (k \in C19_Written /\ resp'.Type # "Error" /\ Has(store, k)) =>
         (Has(store', k) /\ Rec(store', k).Version > Rec(store, k).Version)]_vars

\* FNV-1a-32 of the keys, from the published algorithm, as high and low 16 bits
C20_Fnv32 ==
  (S_a :> <<58380, 10540>>) @@ (S_b :> <<59148, 11749>>) @@ (S_c :> <<58892, 11346>>)

\* FNV-1a-32(k) mod the number of shards
C20_Shard(k) ==
  ((C20_Fnv32[k][1] % Shards) * (65536 % Shards) + (C20_Fnv32[k][2] % Shards)) % Shards

\* the keys named by the command of the step
C20_Named == {k \in AllKeys : \E i \in 1..Len(cmd'.Args) : cmd'.Args[i] = k}

\* C20: a key is stored in no shard but number FNV-1a-32(key) mod N, and a
\* command changes no shard but those of the keys it names and, there, no
\* record but theirs.
C20_OneShardPerKey ==
  [][/\ \A i \in 0..(Shards - 1) : \A k \in DOMAIN store'.shards[i] : i = C20_Shard(k)
     /\ \A i \in 0..(Shards - 1) :
          (\A k \in C20_Named : C20_Shard(k) # i) => store'.shards[i] = store.shards[i]
     /\ \A i \in 0..(Shards - 1) : \A k \in AllKeys \ C20_Named :
          /\ (k \in DOMAIN store'.shards[i]) = (k \in DOMAIN store.shards[i])
          /\ k \in DOMAIN store.shards[i] => store'.shards[i][k] = store.shards[i][k]]_vars

\* C20 happens: a has been deleted while b, in its own shard, stays
C20_Witness ==
  /\ cmd = Command(S_DEL, <<S_a>>)
  /\ pre = "persistent"
  /\ resp = NewInteger(I64(1))
  /\ S_b \in DOMAIN store.shards[C20_Shard(S_b)]
  /\ \A i \in 0..(Shards - 1) : S_a \notin DOMAIN store.shards[i]


\* the number of records held in all shards, expired ones included
C21_Records(st) ==
  Cardinality({p \in (0..(Shards - 1)) \X AllKeys : p[2] \in DOMAIN st.shards[p[1]]})

\* what DBSIZE would reply on store st
C21_Size(st) == handleDBSize(st, 0, <<>>).resp

\* C21: DBSIZE replies the number of records held in all shards, records past
\* their deadline included, and changes nothing; that number goes up by 1 on a
\* SET of a key that has no record, stays on a SET of a key that has one, goes
\* down by 1 on a DEL that counts 1 and on a lazy removal by GET or TTL, and is
\* never negative.
C21_DBSizeCountsRecords ==
  [][/\ C21_Size(store') = NewInteger(I64(C21_Records(store')))
     /\ C21_Records(store') >= 0
     /\ cmd' = Command(S_DBSIZE, <<>>) => (resp' = C21_Size(store) /\ store' = store)
     /\ \A k \in AllKeys :
          /\ (Called(S_SET, k) /\ resp' = NewSimpleString("OK")) =>
               C21_Records(store') = C21_Records(store) + (IF Has(store, k) THEN 0 ELSE 1)
          /\ (cmd' = Command(S_DEL, <<k>>) /\ resp' = NewInteger(I64(1))) =>
               C21_Records(store') = C21_Records(store) - 1
          /\ ((cmd' = Command(S_GET, <<k>>) \/ cmd' = Command(S_TTL, <<k>>))
                /\ Has(store, k) /\ ~Has(store', k)) =>
               C21_Records(store') = C21_Records(store) - 1]_vars

\* C21 happens: DBSIZE has counted two records, one of them past its deadline
C21_Witness ==
  /\ cmd = Command(S_DBSIZE, <<>>)
  /\ resp = NewInteger(I64(2))
  /\ KeyStatus(store, S_a, now) = "overdue"
  /\ KeyStatus(store, S_b, now) = "persistent"



(***************************************************************************)
(* SpecIdle: keys are written once with an expiration and never accessed   *)
(* again; the client only asks for DBSIZE while the clock goes on.  The    *)
(* store starts no task of its own (store.New), so these are all the steps *)
(* there are.  The clock of the model stops counting at its horizon, past  *)
(* every deadline, and goes on ticking there.                              *)
(***************************************************************************)
IdleKeys == {S_a, S_b}

\* the expirations given: half a second, one second
IdleOpts == { <<S_PX, S_500>>, <<S_EX, S_1>> }

IdleSET ==
  \E k \in IdleKeys, o \in IdleOpts :
    /\ ~Has(store, k)
    /\ Exec(Command(S_SET, <<k, S_1>> \o o))

IdleDBSIZE == Exec(Command(S_DBSIZE, <<>>))

\* time passes, without end
IdleTick ==
  /\ now' = IF now < (MaxTicks + 1) * TickStep THEN now + TickStep ELSE now
  /\ cmd' = NoCommand
  /\ resp' = NoResponse
  /\ pre' = "none"
  /\ UNCHANGED <<store, concVars, ttlSeen, srv>>

NextIdle == IdleSET \/ IdleDBSIZE \/ IdleTick

\* the clock advances and the client keeps being served
SpecIdle ==
  Init /\ [][NextIdle]_vars /\ WF_vars(IdleTick) /\ WF_vars(IdleDBSIZE)

\* C22: a key written with an expiration is eventually removed from storage,
\* though no client accesses it again, so that DBSIZE stops counting it.
C22_EventuallySwept ==
  \A k \in IdleKeys :
    (Has(store, k) /\ Rec(store, k).ExpiresAt # <<>>) ~> ~Has(store, k)



(***************************************************************************)
(* SpecTTL: one client that gives a key a lifetime, asks for its TTL and   *)
(* reads it later, on a clock that runs for several seconds.               *)
(***************************************************************************)
\* the clock of SpecTTL stops after this many steps of TickStep
TtlTicks == 9

\* lifetimes of half a second up to two seconds
TtlOpts == { <<S_PX, S_500>>, <<S_EX, S_1>>, <<S_PX, S_1500>>, <<S_EX, S_2>> }

TtlTick ==
  /\ now < TtlTicks * TickStep
  /\ now' = now + TickStep
  /\ cmd' = NoCommand
  /\ resp' = NoResponse
  /\ pre' = "none"
  /\ UNCHANGED <<store, concVars, ttlSeen, srv>>

\* one call of Handler.HandleCommand, remembering what TTL has told the client
ExecTtl(c) ==
  LET r == HandleCommand(store, now, c)
      k == c.Args[1]
  IN  /\ r.st.expiredCount <= MaxExpired
      /\ store' = r.st
      /\ cmd' = c
      /\ resp' = r.resp
      /\ pre' = KeyStatus(store, k, now)
      /\ ttlSeen' =
           IF c.Name = S_TTL
             THEN IF I64IsNeg(r.resp.Int) THEN ttlSeen
                  ELSE [ttlSeen EXCEPT ![k] = <<[at |-> now, n |-> I64ToInt(r.resp.Int)]>>]
           ELSE IF c.Name \in {S_SET, S_EXPIRE, S_DEL}
             THEN [ttlSeen EXCEPT ![k] = <<>>]
           ELSE ttlSeen
      /\ UNCHANGED <<now, concVars, srv>>

TtlSET ==
  \/ \E o \in TtlOpts : ExecTtl(Command(S_SET, <<S_a, S_1>> \o o))
  \/ ExecTtl(Command(S_SET, <<S_b, S_2>>))

TtlEXPIRE == ExecTtl(Command(S_EXPIRE, <<S_a, S_2>>))

TtlDEL == ExecTtl(Command(S_DEL, <<S_a>>))

TtlTTL == \E k \in {S_a, S_b} : ExecTtl(Command(S_TTL, <<k>>))

TtlGET == \E k \in {S_a, S_b} : ExecTtl(Command(S_GET, <<k>>))

NextTTL == TtlTick \/ TtlSET \/ TtlEXPIRE \/ TtlDEL \/ TtlTTL \/ TtlGET

SpecTTL == Init /\ [][NextTTL]_vars

\* C23: when TTL k replied n >= 0 at t and k was not written since, every GET k
\* at or after t + n + 2 seconds replies null-bulk; and a TTL reply n >= 0 is
\* less than 2 seconds below the remaining lifetime of the record.
C23_TTLNeverUnderReports ==
  [][\A k \in {S_a, S_b} :
       /\ ( /\ cmd' = Command(S_GET, <<k>>)
            /\ ttlSeen[k] # <<>>
            /\ now >= ttlSeen[k][1].at + (ttlSeen[k][1].n + 2) * Second )
          => resp' = NewNullBulkString
       /\ (cmd' = Command(S_TTL, <<k>>) /\ ~I64IsNeg(resp'.Int))
          => /\ Has(store', k)
             /\ Rec(store', k).ExpiresAt # <<>>
             /\ (Rec(store', k).ExpiresAt[1] - now) - I64ToInt(resp'.Int) * Second < 2 * Second
    ]_vars

\* a TTL replied 2, the key was left alone, and a GET four seconds after the
\* TTL found nothing
C23_Witness ==
  /\ cmd = Command(S_GET, <<S_a>>)
  /\ ttlSeen[S_a] # <<>>
  /\ ttlSeen[S_a][1].n = 2
  /\ now = ttlSeen[S_a][1].at + 4 * Second
  /\ resp = NewNullBulkString
  /\ pre = "overdue"



(***************************************************************************)
(* The RESP2 decoder (Parser in internal/proto).  The parser reads from a  *)
(* buffer buf of the bytes received and not yet consumed; eof says that    *)
(* the client has closed the stream behind them.  A parse yields           *)
(*   [kind |-> "ok", val, rest]   a value and the bytes left,              *)
(*   [kind |-> "err", msg, arg]   an error whose text is msg followed by   *)
(*                                the bytes arg,                           *)
(*   [kind |-> "more"]            the read blocks: the bytes so far do not *)
(*                                decide and the stream is still open.     *)
(***************************************************************************)
CRLF == <<13, 10>>

ParseOk(val, rest) == [kind |-> "ok", val |-> val, rest |-> rest, msg |-> "", arg |-> <<>>]

ParseErr(msg, arg) == [kind |-> "err", val |-> <<>>, rest |-> <<>>, msg |-> msg, arg |-> arg]

ParseMore == [kind |-> "more", val |-> <<>>, rest |-> <<>>, msg |-> "", arg |-> <<>>]

\* F of the value v, with v computed once
Bind(v, F(_)) == CHOOSE r \in {F(x) : x \in {v}} : TRUE

\* the place of the first '\n' in buf, 0 when it has none
IndexLF(buf) ==
  LET S == {i \in 1..Len(buf) : buf[i] = 10}
  IN  IF S = {} THEN 0 ELSE CHOOSE i \in S : \A j \in S : i <= j

\* the bytes of buf after the first n
Drop(buf, n) == SubSeq(buf, n + 1, Len(buf))

\* Parser.readLine: ReadString('\n'), then the line without its CRLF or LF;
\* at the end of the stream the bytes of an unfinished line are lost with io.EOF
readLine(buf, eof) ==
  LET i == IndexLF(buf)
  IN  IF i = 0 THEN (IF eof THEN ParseErr("EOF", <<>>) ELSE ParseMore)
      ELSE IF i >= 2 /\ buf[i - 1] = 13 THEN ParseOk(SubSeq(buf, 1, i - 2), Drop(buf, i))
      ELSE ParseOk(SubSeq(buf, 1, i - 1), Drop(buf, i))

\* Parser.parseBulkString, after the line "$<length>"
parseBulkString(line, buf, eof) ==
  LET lengthStr == Tail(line)
      length == Atoi(lengthStr)
  IN  IF ~length.ok THEN ParseErr("invalid bulk string length: ", lengthStr)
      ELSE IF I64IsNeg(length.val) THEN ParseOk(<<>>, buf)
      ELSE IF length.val = I64Zero
        THEN Bind(readLine(buf, eof),
                  LAMBDA l : IF l.kind = "ok" THEN ParseOk(<<>>, l.rest) ELSE l)
      ELSE LET n == I64ToInt(length.val)
           IN  IF Len(buf) < n
                 THEN IF ~eof THEN ParseMore
                      ELSE ParseErr("failed to read bulk string data: " \o
                                      (IF Len(buf) = 0 THEN "EOF" ELSE "unexpected EOF"), <<>>)
               ELSE Bind(readLine(Drop(buf, n), eof),
                         LAMBDA l :
                           IF l.kind = "ok" THEN ParseOk(SubSeq(buf, 1, n), l.rest)
                           ELSE IF l.kind = "more" THEN ParseMore
                           ELSE ParseErr("failed to read bulk string trailing CRLF: " \o l.msg, l.arg))

\* Parser.parseElement
parseElement(buf, eof) ==
  Bind(readLine(buf, eof),
       LAMBDA l :
         IF l.kind # "ok" THEN l
         ELSE IF Len(l.val) = 0 THEN ParseErr("empty element", <<>>)
         ELSE IF l.val[1] = 36 THEN parseBulkString(l.val, l.rest, eof)
         ELSE IF l.val[1] \in {43, 45, 58} THEN ParseOk(Tail(l.val), l.rest)
         ELSE ParseOk(l.val, l.rest))

\* %d of a small index
Sprintd(i) == <<"0", "1", "2", "3", "4", "5", "6", "7", "8", "9">>[i + 1]

\* the loop of parseArray over the elements i .. count-1
RECURSIVE parseElements(_, _, _, _, _)
parseElements(i, count, elements, buf, eof) ==
  IF i = count THEN ParseOk(elements, buf)
  ELSE Bind(parseElement(buf, eof),
            LAMBDA e :
              IF e.kind = "more" THEN ParseMore
              ELSE IF e.kind = "err"
                THEN ParseErr("failed to parse array element " \o Sprintd(i) \o ": " \o e.msg, e.arg)
              ELSE parseElements(i + 1, count, Append(elements, e.val), e.rest, eof))

\* Parser.parseArray, after the line "*<count>"
\* parseArray with the slip of taking the command name as it was sent
parseArray_CaseSensitive(line, buf, eof) ==
  LET countStr == Tail(line)
      count == Atoi(countStr)
  IN  IF ~count.ok THEN ParseErr("invalid array length: ", countStr)
      ELSE IF I64IsNeg(count.val) THEN ParseErr("negative array length: ", FormatInt(count.val))
      ELSE IF count.val = I64Zero THEN ParseOk(Command(<<>>, <<>>), buf)
      ELSE Bind(parseElements(0, I64ToInt(count.val), <<>>, buf, eof),
                LAMBDA es :
                  IF es.kind # "ok" THEN es
                  ELSE ParseOk(Command(es.val[1], Tail(es.val)), es.rest))

parseArray(line, buf, eof) ==
  LET countStr == Tail(line)
      count == Atoi(countStr)
  IN  IF ~count.ok THEN ParseErr("invalid array length: ", countStr)
      ELSE IF I64IsNeg(count.val) THEN ParseErr("negative array length: ", FormatInt(count.val))
      ELSE IF count.val = I64Zero THEN ParseOk(Command(<<>>, <<>>), buf)
      ELSE Bind(parseElements(0, I64ToInt(count.val), <<>>, buf, eof),
                LAMBDA es :
                  IF es.kind # "ok" THEN es
                  ELSE ParseOk(Command(ToUpper(es.val[1]), Tail(es.val)), es.rest))

\* the white space of strings.Fields
IsSpace(b) == b \in {9, 10, 11, 12, 13, 32}

\* strings.Fields(line) from position i on; cur is the field being read
RECURSIVE Fields(_, _, _)
Fields(line, i, cur) ==
  IF i > Len(line) THEN (IF cur = <<>> THEN <<>> ELSE <<cur>>)
  ELSE IF IsSpace(line[i])
    THEN (IF cur = <<>> THEN <<>> ELSE <<cur>>) \o Fields(line, i + 1, <<>>)
  ELSE Fields(line, i + 1, Append(cur, line[i]))

\* Parser.parseInlineString
parseInlineString(line, buf) ==
  LET parts == Fields(line, 1, <<>>)
  IN  IF Len(parts) = 0 THEN ParseOk(Command(<<>>, <<>>), buf)
      ELSE ParseOk(Command(ToUpper(parts[1]), Tail(parts)), buf)

\* Parser.parseInline
parseInline(line, buf) ==
  IF line[1] = 43 THEN ParseOk(Command(<<82, 69, 83, 80, 79, 78, 83, 69>>, <<Tail(line)>>), buf)
  ELSE IF line[1] = 45 THEN ParseOk(Command(<<69, 82, 82, 79, 82>>, <<Tail(line)>>), buf)
  ELSE IF line[1] = 58 THEN ParseOk(Command(<<73, 78, 84, 69, 71, 69, 82>>, <<Tail(line)>>), buf)
  ELSE parseInlineString(line, buf)

\* Parser.ParseCommand
ParseCommand(buf, eof) ==
  Bind(readLine(buf, eof),
       LAMBDA l :
         IF l.kind # "ok" THEN l
         ELSE IF Len(l.val) = 0 THEN ParseErr("empty command", <<>>)
         ELSE IF l.val[1] = 42 THEN parseArray(l.val, l.rest, eof)
         ELSE IF l.val[1] \in {43, 45, 58, 36} THEN parseInline(l.val, l.rest)
         ELSE parseInlineString(l.val, l.rest))

\* writeBulkString: "$%d\r\n%s\r\n" of len(s) and s
\* writeBulkString with the slip of writing the empty string as the null bulk
writeBulkString_EmptyIsNull(s) ==
  IF s = <<>> THEN <<36, 45, 49>> \o CRLF
  ELSE <<36>> \o FormatInt(I64(Len(s))) \o CRLF \o s \o CRLF

writeBulkString(s) == <<36>> \o FormatInt(I64(Len(s))) \o CRLF \o s \o CRLF


\* writeNullBulkString
writeNullBulkString == <<36, 45, 49>> \o CRLF

\* WriteResponse of a bulk, null bulk or integer reply (the texts of simple
\* strings and errors are kept as strings, not spelled out in bytes)
WriteResponse(r) ==
  CASE r.Type = "BulkString" -> writeBulkString(r.Bulk)
    [] r.Type = "NullBulkString" -> writeNullBulkString
    [] r.Type = "Integer" -> <<58>> \o FormatInt(r.Int) \o CRLF

(***************************************************************************)
(* SpecWire: one session of Server.handleConnection fed with bytes.  The   *)
(* client sends a frame when the server waits for input, or closes its end *)
(* of the stream; the server runs its request loop.  The session is        *)
(*   [pc, inp, eof, sent, out]                                             *)
(* with pc "parse" while the loop runs and "closed" after its return, inp  *)
(* the bytes received and not consumed, eof set when the client has closed *)
(* the stream, sent the frames the client has sent (a history) and out the *)
(* replies written, each with the command it answers.                      *)
(***************************************************************************)
\* frames a client sends on one connection before the model stops
MaxFrames == 2

\* the password of the configuration (server.auth_password)
AuthPassword == <<115, 101, 99, 114, 101, 116>>

S_AUTH == <<65, 85, 84, 72>>

\* a bulk string on the wire
Bulk(s) == <<36>> \o FormatInt(I64(Len(s))) \o CRLF \o s \o CRLF

RECURSIVE Bulks(_)
Bulks(args) == IF args = <<>> THEN <<>> ELSE Bulk(Head(args)) \o Bulks(Tail(args))

\* a command in array framing
ArrayFrame(args) ==
  [kind |-> "array", args |-> args,
   bytes |-> <<42>> \o FormatInt(I64(Len(args))) \o CRLF \o Bulks(args)]

\* bytes that are not the array framing of args
RawFrame(kind, args, bytes) == [kind |-> kind, args |-> args, bytes |-> bytes]

\* the values written: empty, CR, LF, NUL, an 8-bit byte, CR LF, text
WireVals == { <<>>, <<13>>, <<10>>, <<0>>, <<255>>, <<13, 10>>, S_v1 }

\* names and an argument in lower and mixed case: get, echo, Foo, Ab
S_get == <<103, 101, 116>>

S_echo == <<101, 99, 104, 111>>

S_Foo == <<70, 111, 111>>

S_Ab == <<65, 98>>

GetPrefix == <<42, 50>> \o CRLF \o Bulk(S_GET)

Frames ==
  { ArrayFrame(<<S_SET, S_a, v>>) : v \in WireVals }
  \cup { ArrayFrame(<<S_GET, S_a>>), ArrayFrame(<<S_PING>>), ArrayFrame(<<S_QUIT>>),
         ArrayFrame(<<S_AUTH, AuthPassword>>),
         ArrayFrame(<<S_FOO, S_a>>), ArrayFrame(<<S_GET>>),
         ArrayFrame(<<S_SET, S_a, S_1, S_FOO>>), ArrayFrame(<<S_INCR, S_a>>),
         ArrayFrame(<<S_get, S_a>>), ArrayFrame(<<S_echo, S_Ab>>),
         ArrayFrame(<<S_Foo, S_a>>), ArrayFrame(<<>>) }
  \cup { RawFrame("inline", <<S_GET, S_a>>, S_GET \o <<32>> \o S_a \o CRLF),
         RawFrame("badcount", <<>>, <<42>> \o S_invalid \o CRLF),
         RawFrame("negcount", <<>>, <<42, 45, 49>> \o CRLF),
         RawFrame("blank", <<>>, CRLF),
         RawFrame("badlen", <<S_GET>>, GetPrefix \o <<36, 120>> \o CRLF),
         RawFrame("nullbulk", <<S_GET>>, GetPrefix \o <<36, 45, 49>> \o CRLF),
         RawFrame("nonbulk", <<S_GET, <<43>>>>, GetPrefix \o <<43>> \o S_a \o CRLF),
         RawFrame("nonbulk", <<S_GET, <<58>>>>, GetPrefix \o <<58>> \o S_1 \o CRLF),
         RawFrame("nonbulk", <<S_GET, <<>>>>, GetPrefix \o S_a \o CRLF),
         RawFrame("overlong", <<S_GET, S_a>>, GetPrefix \o <<36, 49>> \o CRLF \o S_a \o S_b \o S_c \o CRLF),
         RawFrame("midline", <<S_GET, S_a>>, S_GET \o <<32>> \o S_a),
         RawFrame("midarray", <<S_GET>>, GetPrefix),
         RawFrame("midbulk", <<S_GET>>, GetPrefix \o <<36, 51>> \o CRLF \o S_a \o S_b) }

WireConns == {1}

NewSession == [pc |-> "parse", inp |-> <<>>, eof |-> FALSE, sent |-> <<>>, out |-> <<>>]

InitWire ==
  /\ store = New
  /\ now = 0
  /\ cmd = NoCommand
  /\ resp = NoResponse
  /\ pre = "none"
  /\ conn = [c \in Conns |-> NewSession]
  /\ readers = [i \in 0..(Shards - 1) |-> {}]
  /\ crashed = FALSE
  /\ lastPlain = [k \in AllKeys |-> <<>>]
  /\ ttlSeen = [k \in AllKeys |-> <<>>]
  /\ srv = NewServer(NoTimeouts)

\* the request loop of connection c is blocked in a read
Waiting(c) == conn[c].pc = "parse" /\ ParseCommand(conn[c].inp, conn[c].eof).kind = "more"

\* the client writes the bytes of a frame
ClientSend(c) ==
  \E f \in Frames :
    /\ Waiting(c)
    /\ Len(conn[c].sent) < MaxFrames
    /\ conn' = [conn EXCEPT ![c].inp = @ \o f.bytes,
                            ![c].sent = Append(@, [kind |-> f.kind, args |-> f.args])]
    /\ UNCHANGED <<seqVars, readers, crashed, lastPlain, ttlSeen, srv>>

\* the client closes its end of the stream
ClientClose(c) ==
  /\ Waiting(c)
  /\ conn' = [conn EXCEPT ![c].eof = TRUE]
  /\ UNCHANGED <<seqVars, readers, crashed, lastPlain, ttlSeen, srv>>

\* the reply to a parse error
ProtocolError(p) == Response("Error", "ERR Protocol error: " \o p.msg, I64Zero, p.arg, <<>>)

\* handleConnection: ParseCommand reports the end of the stream
ServeEOF(c) ==
  LET p == ParseCommand(conn[c].inp, conn[c].eof)
  IN  /\ conn[c].pc = "parse"
      /\ p.kind = "err"
      /\ p.msg = "EOF"
      /\ conn' = [conn EXCEPT ![c].pc = "closed"]
      /\ UNCHANGED <<seqVars, readers, crashed, lastPlain, ttlSeen, srv>>

\* handleConnection on a parse error with the slip of returning without a reply
ServeProtocolError_Silent(c) ==
  LET p == ParseCommand(conn[c].inp, conn[c].eof)
  IN  /\ conn[c].pc = "parse"
      /\ p.kind = "err"
      /\ p.msg # "EOF"
      /\ conn' = [conn EXCEPT ![c].pc = "closed"]
      /\ UNCHANGED <<seqVars, readers, crashed, lastPlain, ttlSeen, srv>>

\* handleConnection: ParseCommand reports another error
ServeProtocolError(c) ==
  LET p == ParseCommand(conn[c].inp, conn[c].eof)
  IN  /\ conn[c].pc = "parse"
      /\ p.kind = "err"
      /\ p.msg # "EOF"
      /\ conn' = [conn EXCEPT ![c].pc = "closed",
                              ![c].out = Append(@, [cmd |-> NoCommand, resp |-> ProtocolError(p)])]
      /\ UNCHANGED <<seqVars, readers, crashed, lastPlain, ttlSeen, srv>>

\* handleConnection: a command is parsed, handled and answered
ServeCommand(c) ==
  LET p == ParseCommand(conn[c].inp, conn[c].eof)
      r == HandleCommand(store, now, p.val)
  IN  /\ conn[c].pc = "parse"
      /\ p.kind = "ok"
      /\ store' = r.st
      /\ cmd' = p.val
      /\ resp' = r.resp
      /\ pre' = "none"
      /\ conn' = [conn EXCEPT ![c].inp = p.rest,
                              ![c].out = Append(@, [cmd |-> p.val, resp |-> r.resp])]
      /\ UNCHANGED <<now, readers, crashed, lastPlain, ttlSeen, srv>>

NextWire ==
  \E c \in WireConns :
    ClientSend(c) \/ ClientClose(c) \/ ServeEOF(c) \/ ServeProtocolError(c) \/ ServeCommand(c)

SpecWire == InitWire /\ [][NextWire]_vars


\* the session the claims look at
Session == conn[1]

\* C24: when the decoder fails, the session writes exactly one reply
\* "ERR Protocol error: <detail>", closes, and handles nothing more; when a
\* handler replies an error (unknown command, arity, syntax, not an integer),
\* exactly that reply is written and the connection stays open with the rest
\* of its input.
C24_ErrorPropagation ==
  [][LET s == Session
         p == ParseCommand(s.inp, s.eof)
         r == HandleCommand(store, now, p.val)
     IN  /\ (s.pc = "parse" /\ p.kind = "err" /\ p.msg # "EOF")
              => /\ Len(conn'[1].out) = Len(s.out) + 1
                 /\ SubSeq(conn'[1].out, 1, Len(s.out)) = s.out
                 /\ conn'[1].out[Len(s.out) + 1].resp.Type = "Error"
                 /\ conn'[1].out[Len(s.out) + 1].resp.Str = "ERR Protocol error: " \o p.msg
                 /\ conn'[1].pc = "closed"
                 /\ store' = store
         /\ s.pc = "closed"
              => (conn'[1].pc = "closed" /\ conn'[1].out = s.out /\ store' = store)
         /\ (s.pc = "parse" /\ p.kind = "ok" /\ r.resp.Type = "Error")
              => /\ conn'[1].out = Append(s.out, [cmd |-> p.val, resp |-> r.resp])
                 /\ conn'[1].pc = "parse"
                 /\ conn'[1].inp = p.rest
                 /\ store' = store
    ]_vars

\* an unknown command was answered with an error, the connection stayed open,
\* and the bad frame after it got the protocol error and closed the connection
C24_Witness ==
  /\ Len(Session.out) = 2
  /\ Session.sent[1] = [kind |-> "array", args |-> <<S_FOO, S_a>>]
  /\ Session.out[1].cmd.Name = S_FOO
  /\ Session.out[1].resp.Type = "Error"
  /\ Session.sent[2].kind = "badcount"
  /\ Session.out[2].resp.Str = "ERR Protocol error: invalid array length: "
  /\ Session.pc = "closed"

PartialKinds == {"midline", "midarray", "midbulk"}

\* C25: when the client closes the stream in the middle of a command (of a
\* line, of the elements of an array frame, of a bulk payload), the session
\* writes no reply.
C25_PartialIsDropped ==
  ( /\ Len(Session.sent) = 1
    /\ Session.sent[1].kind \in PartialKinds
    /\ Session.eof )
  => Session.out = <<>>

\* C26: an array frame with a null bulk or a non-bulk element gets the
\* protocol error and yields no command.
C26_OnlyBulkElements ==
  ( /\ Len(Session.sent) >= 1
    /\ Session.sent[1].kind \in {"nullbulk", "nonbulk"}
    /\ Len(Session.out) >= 1 )
  => /\ Session.out[1].cmd = NoCommand
     /\ Session.out[1].resp.Type = "Error"
     /\ Session.pc = "closed"
     /\ store = New

\* C27: a bulk declared with length L whose L payload bytes are not followed
\* by CR LF gets the protocol error; its first L bytes are not accepted.
C27_ExactBulkLength ==
  ( /\ Len(Session.sent) >= 1
    /\ Session.sent[1].kind = "overlong"
    /\ Len(Session.out) >= 1 )
  => /\ Session.out[1].cmd = NoCommand
     /\ Session.out[1].resp.Type = "Error"
     /\ Session.pc = "closed"

\* frame m of the session writes key k
C28_Writes(m, k) ==
  /\ Len(Session.sent[m].args) >= 2
  /\ Session.sent[m].args[1] \in {S_SET, S_INCR}
  /\ Session.sent[m].args[2] = k

\* C28: a SET k b in array framing followed by a GET k replies a bulk whose
\* payload is b and whose wire form is "$<len(b)>" CR LF b CR LF, for every b,
\* the empty string (never the null bulk) and bytes CR, LF, NUL, 255 included.
C28_BulkRoundTrip ==
  \A b \in WireVals : \A i, j \in 1..Len(Session.out) :
    ( /\ i < j
      /\ \A m \in 1..j : Session.sent[m].kind = "array"
      /\ Session.sent[i].args = <<S_SET, S_a, b>>
      /\ Session.sent[j].args = <<S_GET, S_a>>
      /\ \A m \in (i + 1)..(j - 1) : ~C28_Writes(m, S_a) )
    => /\ Session.out[j].resp.Type = "BulkString"
       /\ Session.out[j].resp.Bulk = b
       /\ WriteResponse(Session.out[j].resp) = <<36, Digit(Len(b))>> \o CRLF \o b \o CRLF
       /\ WriteResponse(Session.out[j].resp) # <<36, 45, 49, 13, 10>>

\* the empty string was written and read back as "$0" CR LF CR LF
C28_Witness ==
  /\ Len(Session.out) = 2
  /\ Session.sent[1] = [kind |-> "array", args |-> <<S_SET, S_a, <<>>>>]
  /\ Session.sent[2] = [kind |-> "array", args |-> <<S_GET, S_a>>]
  /\ WriteResponse(Session.out[2].resp) = <<36, 48, 13, 10, 13, 10>>

\* the session has authenticated: an AUTH was answered without error
C29_Authenticated(s) ==
  \E i \in 1..Len(s.out) : s.out[i].cmd.Name = S_AUTH /\ s.out[i].resp.Type # "Error"

\* C29: with a password configured, a command other than AUTH, PING and QUIT
\* on a connection that has not authenticated is answered
\* "NOAUTH Authentication required" and leaves the keyspace untouched.
C29_AuthGate ==
  [][LET s == Session
         n == Len(s.out) + 1
     IN  ( /\ AuthPassword # <<>>
           /\ ~C29_Authenticated(s)
           /\ Len(conn'[1].out) = n
           /\ conn'[1].out[n].cmd # NoCommand
           /\ conn'[1].out[n].cmd.Name \notin {S_AUTH, S_PING, S_QUIT} )
         => /\ conn'[1].out[n].resp = NewError("NOAUTH Authentication required")
            /\ store' = store
    ]_vars

\* C30: the reply to QUIT is +OK and it is the last thing the connection is
\* answered: no command after QUIT is parsed or executed.
C30_QuitCloses ==
  \A i \in 1..Len(Session.out) :
    Session.out[i].cmd.Name = S_QUIT
      => (Session.out[i].resp = NewSimpleString("OK") /\ i = Len(Session.out))

(***************************************************************************)
(* The expired-keys counter under concurrent readers.                      *)
(***************************************************************************)

\* Number of records that leave the shard maps in one step.
RemovedInStep == Cardinality({k \in AllKeys : Has(store, k) /\ ~Has(store', k)})

\* C37: each record removed by lazy expiration is counted exactly once: the
\* expired-keys counter never decreases, and whenever it moves it moves by
\* the number of records that the same step removed from the shard maps,
\* also when several Get calls observe the same expired record concurrently.
C37_CountedOnce ==
  [][ /\ store'.expiredCount >= store.expiredCount
      /\ store'.expiredCount - store.expiredCount \in {0, RemovedInStep} ]_vars

(***************************************************************************)
(* Presence of a key as GET, EXISTS and TTL report it at one instant.      *)
(***************************************************************************)

GetSees(k)    == handleGet(store, now, <<k>>).resp.Type = "BulkString"

ExistsSees(k) == handleExists(store, now, <<k>>).resp.Int = I64(1)

TTLSees(k)    == handleTTL(store, now, <<k>>).resp.Int # I64(-2)

\* C38: at any single clock instant, with no write in between, GET k returns
\* a value iff EXISTS k counts 1 iff TTL k is not -2, for every key, also
\* when the instant is the record's deadline itself.
C38_PresenceAgrees ==
  \A k \in AllKeys :
    /\ GetSees(k) <=> ExistsSees(k)
    /\ ExistsSees(k) <=> TTLSees(k)

(***************************************************************************)
(* What EXPIRE changes.                                                    *)
(***************************************************************************)

\* C39: EXPIRE changes only the expiration of its key: when EXPIRE k s
\* replies 1, k was stored and the store afterwards is the store before with
\* nothing but the deadline of k's record replaced (same value, same
\* version, every other record and the expired counter as they were); any
\* other reply of EXPIRE (0, or an error such as the one for a non-integer
\* seconds argument) leaves the store exactly as it was.
C39_ExpireOnlyDeadline ==
  [][ cmd'.Name = S_EXPIRE =>
        IF resp' = NewInteger(I64(1))
        THEN LET k == cmd'.Args[1]
             IN  /\ Has(store, k) /\ Has(store', k)
                 /\ Rec(store', k).Data = Rec(store, k).Data
                 /\ Rec(store', k).Version = Rec(store, k).Version
                 /\ store' = MapPut(store, k, [Rec(store, k) EXCEPT
                                                 !.ExpiresAt = Rec(store', k).ExpiresAt])
        ELSE store' = store ]_vars

\* EXPIRE has just set a deadline on a record written at an earlier instant
C39_Witness ==
  /\ cmd.Name = S_EXPIRE
  /\ resp = NewInteger(I64(1))
  /\ Has(store, cmd.Args[1])
  /\ Rec(store, cmd.Args[1]).Version < now
  /\ Rec(store, cmd.Args[1]).ExpiresAt = <<now + Second>>

(***************************************************************************)
(* SpecRewrite: counters and MSET on keys that carry a deadline.           *)
(***************************************************************************)
RwKeys == {S_a, S_b}

RwOpts == { <<>>, <<S_PX, S_500>>, <<S_EX, S_2>> }

RwSET ==
  \E k \in RwKeys, v \in {S_1, S_v1}, o \in RwOpts : ExecNum(Command(S_SET, <<k, v>> \o o))

RwINCR == \E k \in RwKeys : ExecNum(Command(S_INCR, <<k>>))

RwDECR == ExecNum(Command(S_DECR, <<S_a>>))

RwINCRBY == \E d \in {S_2, S_invalid} : ExecNum(Command(S_INCRBY, <<S_a, d>>))

RwDECRBY == ExecNum(Command(S_DECRBY, <<S_a, S_1>>))

RwMSET ==
  \E l \in { <<S_a, S_1, S_b, S_2>>, <<S_b, S_v1>>, <<S_a, S_1, S_b>> } :
    ExecNum(Command(S_MSET, l))

RwTTL == \E k \in RwKeys : ExecNum(Command(S_TTL, <<k>>))

NextRewrite ==
  Tick \/ RwSET \/ RwINCR \/ RwDECR \/ RwINCRBY \/ RwDECRBY \/ RwMSET \/ RwTTL

SpecRewrite == Init /\ [][NextRewrite]_vars

\* the key has a record without a deadline and TTL replies -1 for it
NoDeadline(st, t, k) ==
  /\ Has(st, k)
  /\ Rec(st, k).ExpiresAt = <<>>
  /\ handleTTL(st, t, <<k>>).resp = NewInteger(I64(-1))

\* C40: every successful INCR, DECR, INCRBY and DECRBY, and every key
\* written by MSET, leaves that key with no expiration whatever deadline it
\* had before: TTL of the key is -1 immediately after the command.
C40_RewriteClearsDeadline ==
  [][ /\ (cmd'.Name \in {S_INCR, S_DECR, S_INCRBY, S_DECRBY} /\ resp'.Type = "Integer")
           => NoDeadline(store', now', cmd'.Args[1])
      /\ (cmd'.Name = S_MSET /\ resp' = NewSimpleString("OK"))
           => \A i \in 1..Len(cmd'.Args) :
                i % 2 = 1 => NoDeadline(store', now', cmd'.Args[i]) ]_vars

\* MSET has just written two keys, the first of which had a live deadline
C40_Witness ==
  /\ cmd.Name = S_MSET
  /\ Len(cmd.Args) = 4
  /\ resp = NewSimpleString("OK")
  /\ pre = "volatile"
  /\ NoDeadline(store, now, cmd.Args[1])

\* INCR has just counted on a key that had a live deadline
C40_WitnessIncr ==
  /\ cmd.Name = S_INCR
  /\ resp.Type = "Integer"
  /\ pre = "volatile"
  /\ NoDeadline(store, now, cmd.Args[1])

(***************************************************************************)
(* SpecArity: every command with zero to three arguments.                  *)
(***************************************************************************)
ArityNames ==
  { S_PING, S_ECHO, S_QUIT, S_DBSIZE, S_GET, S_SET, S_DEL, S_EXISTS, S_EXPIRE,
    S_TTL, S_MGET, S_MSET, S_INCR, S_DECR, S_INCRBY, S_DECRBY }

ArityArgs == { <<>>, <<S_a>>, <<S_a, S_1>>, <<S_a, S_1, S_b>> }

ArityCommand == \E n \in ArityNames, l \in ArityArgs : ExecNum(Command(n, l))

NextArity == Tick \/ ArityCommand

SpecArity == Init /\ [][NextArity]_vars

\* the command name as the arity error quotes it
QuotedName(n) ==
  CASE n = S_PING -> "ping" [] n = S_ECHO -> "echo" [] n = S_QUIT -> "quit"
    [] n = S_DBSIZE -> "dbsize" [] n = S_GET -> "get" [] n = S_SET -> "set"
    [] n = S_DEL -> "del" [] n = S_EXISTS -> "exists" [] n = S_EXPIRE -> "expire"
    [] n = S_TTL -> "ttl" [] n = S_MGET -> "mget" [] n = S_MSET -> "mset"
    [] n = S_INCR -> "incr" [] n = S_DECR -> "decr" [] n = S_INCRBY -> "incrby"
    [] n = S_DECRBY -> "decrby"

\* whether n arguments violate the arity rule of the command
ViolatesArity(name, n) ==
  CASE name = S_PING -> n > 1
    [] name \in {S_ECHO, S_GET, S_TTL, S_INCR, S_DECR} -> n # 1
    [] name \in {S_QUIT, S_DBSIZE} -> n # 0
    [] name = S_SET -> n < 2
    [] name \in {S_DEL, S_EXISTS, S_MGET} -> n < 1
    [] name \in {S_EXPIRE, S_INCRBY, S_DECRBY} -> n # 2
    [] name = S_MSET -> n < 2 \/ n % 2 # 0

\* C34: every command whose argument count violates its arity rule replies
\* ERR wrong number of arguments for '<name>' command and leaves the
\* keyspace as it was.
C34_ArityErrors ==
  [][ (cmd'.Name \in ArityNames /\ ViolatesArity(cmd'.Name, Len(cmd'.Args)))
        => /\ resp' = NewError(ErrArity(QuotedName(cmd'.Name)))
           /\ store' = store ]_vars

\* C34 with QUIT left out of the commands it speaks of
ArityErrorsButQuit ==
  [][ (cmd'.Name \in ArityNames \ {S_QUIT} /\ ViolatesArity(cmd'.Name, Len(cmd'.Args)))
        => /\ resp' = NewError(ErrArity(QuotedName(cmd'.Name)))
           /\ store' = store ]_vars

(***************************************************************************)
(* Dispatch by command name over the wire.                                 *)
(***************************************************************************)

\* the names Handler.HandleCommand has a case for
DispatchNames == ArityNames \cup {S_INFO}

\* the first n frames of the session were array frames, answered one by one
InStep(s, n) ==
  /\ n <= Len(s.sent)
  /\ \A m \in 1..n : s.sent[m].kind = "array"

\* the name of an array frame as the dispatch sees it
FrameName(f) == IF f.args = <<>> THEN <<>> ELSE ToUpper(f.args[1])

FrameArgs(f) == IF f.args = <<>> THEN <<>> ELSE Tail(f.args)

\* C35: the command of an array frame is dispatched on its name in upper
\* case with its arguments as they were sent; when that name is not in the
\* dispatch table, the empty name of a frame of zero elements included, the
\* reply is ERR unknown command '<NAME>' and the keyspace is unchanged.
C35_UnknownCommand ==
  [][LET s == Session
         n == Len(s.out) + 1
     IN  (Len(conn'[1].out) = n /\ InStep(s, n))
         => LET f == s.sent[n]
                o == conn'[1].out[n]
            IN  /\ o.cmd = Command(FrameName(f), FrameArgs(f))
                /\ (FrameName(f) \in DispatchNames) <=> (o.resp.Str # "ERR unknown command")
                /\ FrameName(f) \notin DispatchNames
                     => /\ o.resp = Response("Error", "ERR unknown command", I64Zero,
                                             FrameName(f), <<>>)
                        /\ store' = store
                /\ f.args = <<S_echo, S_Ab>> => o.resp = NewBulkString(S_Ab)
    ]_vars

\* a mixed-case unknown name and a frame of zero elements were both answered
\* with the unknown-command error, the first one quoting the name in upper case
C35_Witness ==
  /\ Len(Session.out) = 2
  /\ Session.sent[1] = [kind |-> "array", args |-> <<S_Foo, S_a>>]
  /\ Session.out[1].resp = Response("Error", "ERR unknown command", I64Zero, S_FOO, <<>>)
  /\ Session.sent[2] = [kind |-> "array", args |-> <<>>]
  /\ Session.out[2].resp = Response("Error", "ERR unknown command", I64Zero, <<>>, <<>>)
  /\ Session.pc = "parse"

\* a stored value was read back by a get spelled in lower case
C35_WitnessLower ==
  /\ Len(Session.out) = 2
  /\ Session.sent[1] = [kind |-> "array", args |-> <<S_SET, S_a, S_v1>>]
  /\ Session.sent[2] = [kind |-> "array", args |-> <<S_get, S_a>>]
  /\ Session.out[2].resp = NewBulkString(S_v1)

(***************************************************************************)
(* SpecServer: ListenAndServe, the handleConnection goroutines and         *)
(* Shutdown, each statement that touches shared state a step of its own.   *)
(***************************************************************************)

\* limits.max_clients of the run
MaxClients == 1

\* the timeouts of the run: none, both equal, a longer write timeout
ServerConfigs ==
  { NoTimeouts, Timeouts(TickStep, TickStep), Timeouts(TickStep, 2 * TickStep) }

InitServer ==
  /\ store = New
  /\ now = 0
  /\ cmd = NoCommand
  /\ resp = NoResponse
  /\ pre = "none"
  /\ conn = [c \in Conns |-> NewConn(<<>>)]
  /\ readers = [i \in 0..(Shards - 1) |-> {}]
  /\ crashed = FALSE
  /\ lastPlain = [k \in AllKeys |-> <<>>]
  /\ ttlSeen = [k \in AllKeys |-> <<>>]
  /\ \E cfg \in ServerConfigs : srv = NewServer(cfg)

notSrv == <<store, now, cmd, resp, pre, concVars, ttlSeen>>

\* conn.SetReadDeadline / SetWriteDeadline(time.Now().Add(timeout)) when the
\* timeout is set
Deadline(timeout, old) == IF timeout > 0 THEN <<now + timeout>> ELSE old

\* the deadline d has passed
Passed(d) == d # <<>> /\ now >= d[1]

\* a client connects to the listening socket
SockDial(c) ==
  /\ srv.net = "open"
  /\ srv.socks[c].st = "idle"
  /\ srv' = [srv EXCEPT !.socks[c].st = "dialed"]
  /\ UNCHANGED notSrv

\* a client writes its one command, in time for a read that is waiting
SockSend(c) ==
  /\ srv.socks[c].st = "open"
  /\ ~srv.socks[c].hung
  /\ ~srv.socks[c].sent
  /\ ~(srv.socks[c].h = "read" /\ Passed(srv.socks[c].rdl))
  /\ srv' = [srv EXCEPT !.socks[c].inq = @ + 1, !.socks[c].sent = TRUE]
  /\ UNCHANGED notSrv

\* a client closes its end
SockHangUp(c) ==
  /\ srv.socks[c].st = "open"
  /\ ~srv.socks[c].hung
  /\ srv.socks[c].inq = 0
  /\ srv' = [srv EXCEPT !.socks[c].hung = TRUE]
  /\ UNCHANGED notSrv

\* time passes; a read that has its bytes returns before it does
ServerTick ==
  /\ \A c \in Socks : ~(srv.socks[c].h = "read" /\ srv.socks[c].inq > 0)
  /\ Tick

\* ListenAndServe: net.Listen
LASListen ==
  /\ srv.las = "init"
  /\ srv' = [srv EXCEPT !.net = "open", !.las = "assign"]
  /\ UNCHANGED notSrv

\* ListenAndServe: s.listener = listener
LASAssign ==
  /\ srv.las = "assign"
  /\ srv' = [srv EXCEPT !.listener = TRUE, !.las = "select"]
  /\ UNCHANGED notSrv

\* ListenAndServe: the select on s.shutdown at the head of the accept loop
LASSelect ==
  /\ srv.las = "select"
  /\ srv' = [srv EXCEPT !.las = IF srv.shutdown THEN "returned" ELSE "accept"]
  /\ UNCHANGED notSrv

\* ListenAndServe: Accept returns a connection; it is closed when connCount
\* has reached the limit, else its handler is started
LASAccept(c) ==
  /\ srv.las = "accept"
  /\ srv.net = "open"
  /\ srv.socks[c].st = "dialed"
  /\ srv' = IF srv.connCount >= MaxClients
              THEN [srv EXCEPT !.socks[c].st = "closed", !.las = "select"]
              ELSE [srv EXCEPT !.socks[c].st = "open", !.socks[c].h = "spawned",
                               !.socks[c].late = srv.shutdown, !.las = "select"]
  /\ UNCHANGED notSrv

\* ListenAndServe: Accept fails on the closed listener
LASAcceptError ==
  /\ srv.las = "accept"
  /\ srv.net = "closed"
  /\ srv' = [srv EXCEPT !.las = IF srv.shutdown THEN "returned" ELSE "select"]
  /\ UNCHANGED notSrv

\* handleConnection: atomic.AddInt64(&s.connCount, 1)
HandlerCount(c) ==
  /\ srv.socks[c].h = "spawned"
  /\ srv' = [srv EXCEPT !.connCount = @ + 1, !.socks[c].h = "counted"]
  /\ UNCHANGED notSrv

\* handleConnection: s.wg.Add(1) and the first deadlines
HandlerAdd(c) ==
  /\ srv.socks[c].h = "counted"
  /\ srv' = [srv EXCEPT !.wg = @ + 1,
                        !.socks[c].rdl = Deadline(srv.config.ReadTimeout, @),
                        !.socks[c].wdl = Deadline(srv.config.WriteTimeout, @),
                        !.socks[c].h = "added"]
  /\ UNCHANGED notSrv

\* handleConnection: s.connections.Store(clientID, conn)
HandlerStore(c) ==
  /\ srv.socks[c].h = "added"
  /\ srv' = [srv EXCEPT !.connections = @ \cup {c}, !.socks[c].h = "loop"]
  /\ UNCHANGED notSrv

\* handleConnection: the head of the request loop, the select on s.shutdown
\* and the new read deadline
HandlerLoop(c) ==
  /\ srv.socks[c].h = "loop"
  /\ srv' = IF srv.shutdown
              THEN [srv EXCEPT !.socks[c].h = "exit"]
              ELSE [srv EXCEPT !.socks[c].rdl = Deadline(srv.config.ReadTimeout, @),
                               !.socks[c].h = "read"]
  /\ UNCHANGED notSrv

\* handleConnection: a command is read, handled and answered
HandlerServe(c) ==
  LET r == HandleCommand(store, now, Command(S_PING, <<>>))
  IN  /\ srv.socks[c].h = "read"
      /\ srv.socks[c].st = "open"
      /\ srv.socks[c].inq > 0
      /\ store' = r.st
      /\ srv' = [srv EXCEPT !.socks[c].inq = @ - 1,
                            !.socks[c].wdl = Deadline(srv.config.WriteTimeout, @),
                            !.socks[c].out = Append(@, r.resp),
                            !.socks[c].h = "loop"]
      /\ UNCHANGED <<now, cmd, resp, pre, concVars, ttlSeen>>

\* handleConnection: ParseCommand reports EOF
HandlerEOF(c) ==
  /\ srv.socks[c].h = "read"
  /\ srv.socks[c].st = "open"
  /\ srv.socks[c].hung
  /\ srv.socks[c].inq = 0
  /\ srv' = [srv EXCEPT !.socks[c].h = "exit"]
  /\ UNCHANGED notSrv

\* the reply to the error of a read whose deadline has passed
TimeoutReply == Response("Error", "ERR Protocol error: i/o timeout", I64Zero, <<>>, <<>>)

\* handleConnection: the read deadline passes with nothing to read; the
\* error is not EOF, so the protocol error is written, and the write goes
\* through unless the write deadline has passed as well
HandlerReadTimeout(c) ==
  /\ srv.socks[c].h = "read"
  /\ srv.socks[c].st = "open"
  /\ ~srv.socks[c].hung
  /\ srv.socks[c].inq = 0
  /\ Passed(srv.socks[c].rdl)
  /\ srv' = [srv EXCEPT !.socks[c].out =
                           IF Passed(srv.socks[c].wdl) THEN @ ELSE Append(@, TimeoutReply),
                        !.socks[c].h = "exit"]
  /\ UNCHANGED notSrv

\* handleConnection: the read fails on the socket Shutdown has closed, and
\* so does the write of the protocol error
HandlerReadClosed(c) ==
  /\ srv.socks[c].h = "read"
  /\ srv.socks[c].st = "closed"
  /\ srv' = [srv EXCEPT !.socks[c].h = "exit"]
  /\ UNCHANGED notSrv

\* handleConnection returns: s.connections.Delete and s.wg.Done
HandlerUnregister(c) ==
  /\ srv.socks[c].h = "exit"
  /\ srv' = [srv EXCEPT !.connections = @ \ {c}, !.wg = @ - 1, !.socks[c].h = "closing"]
  /\ UNCHANGED notSrv

\* handleConnection returns: the counter goes down and conn.Close
HandlerClose(c) ==
  /\ srv.socks[c].h = "closing"
  /\ srv' = [srv EXCEPT !.connCount = @ - 1, !.socks[c].st = "closed",
                        !.socks[c].h = "done"]
  /\ UNCHANGED notSrv

\* Shutdown: close(s.shutdown)
ShutdownSignal ==
  /\ srv.sd = "idle"
  /\ srv' = [srv EXCEPT !.shutdown = TRUE, !.sd = "signalled"]
  /\ UNCHANGED notSrv

\* Shutdown: s.listener.Close() when s.listener is set
ShutdownCloseListener ==
  /\ srv.sd = "signalled"
  /\ srv' = [srv EXCEPT !.net = IF srv.listener THEN "closed" ELSE @, !.sd = "waiting"]
  /\ UNCHANGED notSrv

\* Shutdown: s.wg.Wait() has returned and done is closed
ShutdownDrained ==
  /\ srv.sd = "waiting"
  /\ srv.wg = 0
  /\ srv' = [srv EXCEPT !.sd = "returned"]
  /\ UNCHANGED notSrv

\* Shutdown: ctx.Done() first; every connection in the table is closed
ShutdownDeadline ==
  /\ srv.sd = "waiting"
  /\ srv' = [srv EXCEPT !.sd = "returned",
                        !.socks = [c \in Socks |->
                                     IF c \in srv.connections
                                       THEN [srv.socks[c] EXCEPT !.st = "closed"]
                                       ELSE srv.socks[c]]]
  /\ UNCHANGED notSrv

NextServer ==
  \/ ServerTick
  \/ LASListen \/ LASAssign \/ LASSelect \/ LASAcceptError
  \/ ShutdownSignal \/ ShutdownCloseListener \/ ShutdownDrained \/ ShutdownDeadline
  \/ \E c \in Socks :
       \/ SockDial(c) \/ SockSend(c) \/ SockHangUp(c) \/ LASAccept(c)
       \/ HandlerCount(c) \/ HandlerAdd(c) \/ HandlerStore(c) \/ HandlerLoop(c)
       \/ HandlerServe(c) \/ HandlerEOF(c) \/ HandlerReadTimeout(c)
       \/ HandlerReadClosed(c) \/ HandlerUnregister(c) \/ HandlerClose(c)

SpecServer == InitServer /\ [][NextServer]_vars

\* the handler of socket c is in its request loop on an open socket
Serving(c) == srv.socks[c].st = "open" /\ srv.socks[c].h \in {"loop", "read"}

\* C31: the number of connections being served at the same time never
\* exceeds limits.max_clients, and a connection that was closed at the limit
\* has no handler and was written no reply.
C31_AtMostMaxClients ==
  /\ Cardinality({c \in Socks : Serving(c)}) <= MaxClients
  /\ \A c \in Socks :
       (srv.socks[c].st = "closed" /\ srv.socks[c].h = "none") => srv.socks[c].out = <<>>

\* C32: once Shutdown has closed the shutdown channel, no connection is
\* accepted and given a handler, and ListenAndServe, once it has seen the
\* shutdown, stays returned.
C32_NoAcceptAfterShutdown ==
  [][ srv.shutdown =>
        /\ \A c \in Socks : srv.socks[c].h = "none" => srv'.socks[c].h = "none"
        /\ srv.las = "returned" => srv'.las = "returned" ]_vars

\* the handler of socket c was started and has not left its request loop
Alive(c) == srv.socks[c].h \in {"spawned", "counted", "added", "loop", "read"}

\* C33: when Shutdown has returned, every accepted connection has its
\* handler out of the request loop for good or its socket closed.
C33_ShutdownLeavesNoneOpen ==
  srv.sd = "returned" =>
    \A c \in Socks : Alive(c) => srv.socks[c].st = "closed"

\* C36: when the read deadline of a connection passes with no bytes
\* received, the handler leaves its loop without writing a reply and without
\* handling a command.
C36_ReadTimeoutIsSilent ==
  [][ \A c \in Socks :
        ( /\ srv.socks[c].h = "read"
          /\ srv.socks[c].st = "open"
          /\ ~srv.socks[c].hung
          /\ srv.socks[c].inq = 0
          /\ Passed(srv.socks[c].rdl)
          /\ srv'.socks[c].h # "read" )
        => /\ srv'.socks[c].h = "exit"
           /\ srv'.socks[c].out = srv.socks[c].out
           /\ store' = store ]_vars

====
